---- MODULE Spec2Model ----
(***************************************************************************)
(* The real-time voice chat pipeline of the Edulife student chat:          *)
(*   - the useVoiceChat hook (frontend/src/hooks/useVoiceChat.js):         *)
(*     continuous recognition, silence segmentation, speech synthesis and  *)
(*     the turn taking between the two;                                    *)
(*   - the voice handler of ChatInterface.jsx: routing of transcripts,     *)
(*     the streamed reply, the failure policy and the speech trigger.      *)
(*                                                                         *)
(* The browser runs every handler to completion on one thread, so every    *)
(* handler (click, recognition event, synthesis event, timer, promise      *)
(* continuation, effect flush) is one atomic action; the actions           *)
(* interleave in any order the event loop allows.                          *)
(***************************************************************************)
EXTENDS Naturals, Sequences, FiniteSets, TLC

-----------------------------------------------------------------------------
(* Bounds of the model *)

\* recognition objects created over a run (completed initializeVoiceMode calls)
MaxRec == 2
\* cancelled utterances whose terminal event is still queued
MaxCancelled == 1
\* pending 100 ms resume timers
MaxResume == 1
\* recognition result events over a run
MaxResults == 2

RecIds == 1..MaxRec

-----------------------------------------------------------------------------
(* Text: a string is a sequence of one-character strings *)

Space == " "

\* the transcripts of the final results the recognizer delivers
FinalFragments == {<<"a">>, <<"b">>, <<Space>>}
\* the transcripts of the interim results
InterimFragments == {<<"i">>}

RECURSIVE TrimStart(_)
TrimStart(s) ==
    IF s # <<>> /\ Head(s) = Space THEN TrimStart(Tail(s)) ELSE s

RECURSIVE TrimEnd(_)
TrimEnd(s) ==
    IF s # <<>> /\ s[Len(s)] = Space THEN TrimEnd(SubSeq(s, 1, Len(s) - 1)) ELSE s

\* String.prototype.trim
Trim(s) == TrimEnd(TrimStart(s))

-----------------------------------------------------------------------------
VARIABLES
    \* ---- ChatInterface: the feature toggle handed to the hook
    voiceEnabled,     \* useState voiceEnabled = the hook's isEnabled argument
    \* ---- useVoiceChat
    isEnabledRef,     \* isEnabledRef.current
    isUnmountedRef,   \* isUnmountedRef.current
    isListening,      \* useState isListening
    isSpeaking,       \* useState isSpeaking
    isSpeakingRef,    \* isSpeakingRef.current
    error,            \* useState error
    recognitionRef,   \* recognitionRef.current: 0 = null, else a recognition object
    rec,              \* the SpeechRecognition objects created by initializeVoiceMode,
                      \* each with the variables of its closure
    nRec,             \* number of recognition objects created
    pendingInit,      \* initializeVoiceMode calls suspended at getUserMedia
    speaking,         \* speechSynthesis has an utterance that is being spoken
    cancelled,        \* utterances removed by cancel() whose end/error event is queued
    awaitingEnd,      \* speak() calls that signalled speaking started and not yet speaking ended
    resumeTimers,     \* pending setTimeout(resumeListening, 100) timers
    nResults,         \* result events delivered so far
    \* ---- observation of the hook's output
    lastCall,         \* the latest invocation of onTranscriptRef.current
    heard             \* per recognition object: the final fragments received
                      \* since its last final utterance

VARIABLES
    \* ---- ChatInterface
    messages,          \* useState messages
    loading,           \* useState loading
    interimTranscript, \* useState interimTranscript
    sessionId,         \* useState sessionId: 0 = null
    sessionIdRef,      \* sessionIdRef.current
    showQuiz,          \* useState showQuiz
    quizQuestions,     \* useState quizQuestions: 0 = [], else the quiz whose questions it holds
    quizTimers,        \* pending setTimeout(..., 1000) quiz triggers, oldest first
    responseToSpeak,   \* useState responseToSpeak: <<>> = null
    quizVoiceInput,    \* useState quizVoiceInput
    onTranscriptRef,   \* the showQuiz value in the closure of the handler that
                       \* onTranscriptRef.current (useVoiceChat) holds
    req,               \* the handleVoiceInput calls that reached their fetch
    nReq,              \* number of such calls
    nLines,            \* stream lines delivered so far
    \* ---- observation
    spokenReplies      \* response texts the speech effect handed to speak()

VARIABLES
    \* ---- ChatInterface: the quiz submission
    taskData,          \* the taskData prop is set: the chat belongs to an assignment
    submitsPending,    \* handleQuizSubmit calls suspended at their service call
    \* ---- QuizModal, while it is mounted
    answers,           \* useState answers
    currentQuestion,   \* useState currentQuestion
    voiceFeedback,     \* useState voiceFeedback
    hasSpokenRef,      \* hasSpokenRef.current
    quizEffect,        \* the voice input effect is due: a render changed its dependencies
    autoRead,          \* the auto-read effect is due
    \* ---- observation
    submitCalls,       \* onSubmit invocations of the mounted quiz
    commandHandled     \* processVoiceCommand has run on the voice input held

VARIABLES
    \* ---- ChatInterface: handleSendMessage, the typed message
    send               \* its position, its locals retryCount and success, and what it did

quizVars == <<taskData, submitsPending, answers, currentQuestion, voiceFeedback,
              hasSpokenRef, quizEffect, autoRead, submitCalls, commandHandled>>

chatVars == <<messages, loading, interimTranscript, sessionId, sessionIdRef, showQuiz,
              quizQuestions, quizTimers, responseToSpeak, quizVoiceInput,
              onTranscriptRef, req, nReq, send, nLines, spokenReplies, quizVars>>

hookVars == <<voiceEnabled, isEnabledRef, isUnmountedRef, isListening, isSpeaking,
              isSpeakingRef, error, recognitionRef, rec, nRec, pendingInit,
              speaking, cancelled, awaitingEnd, resumeTimers, nResults, lastCall, heard>>

vars == <<hookVars, chatVars>>

-----------------------------------------------------------------------------
(* SpeechRecognition objects *)

\* st: "none"      not created yet
\*     "idle"      created, no session
\*     "starting"  start() called, onstart not delivered yet
\*     "listening" session running
\*     "aborted"   abort() called, the end event is queued
\*     "refused"   the not-allowed error was delivered, the end event is queued
\* timers: pending silenceTimer timeouts of the closure
\* buf: currentTranscript of the closure
NoRec == [st |-> "none", timers |-> 0, buf |-> <<>>]

\* a session that captures audio
RecActive(r) == rec[r].st \in {"starting", "listening"}

\* recognition.start(): throws InvalidStateError unless the object is idle;
\* every caller catches and logs it
StartRec(rs, r) ==
    IF rs[r].st = "idle" THEN [rs EXCEPT ![r].st = "starting"] ELSE rs

\* recognition.abort() through a ref that may be null
AbortRec(rs, r) ==
    IF r # 0 /\ rs[r].st \in {"starting", "listening"}
    THEN [rs EXCEPT ![r].st = "aborted"]
    ELSE rs

\* a timeout that is never cleared: every fragment adds a timer
ClearTimeoutKeepsTimer(n) == n

\* clearTimeout(silenceTimer): the handle is the latest timeout of the closure
ClearTimeout(n) == IF n > 0 THEN n - 1 ELSE 0

\* resumeListening
ResumeListening(rs, ref, spRef, enRef) ==
    IF ref # 0 /\ ~spRef /\ enRef THEN StartRec(rs, ref) ELSE rs

\* initializeVoiceMode up to its await: returns early unless enabled and mounted
InitializeVoiceMode(p, enRef, unRef) ==
    IF enRef /\ ~unRef THEN p + 1 ELSE p

\* speechSynthesis.cancel(): the utterance being spoken is removed; its
\* terminal event is delivered later
CancelCount(sp, c) == IF sp THEN c + 1 ELSE c

NoCall == [text |-> <<>>, final |-> FALSE, rec |-> 0]

-----------------------------------------------------------------------------
HookInit ==
    /\ voiceEnabled = FALSE
    /\ isEnabledRef = FALSE
    /\ isUnmountedRef = FALSE
    /\ isListening = FALSE
    /\ isSpeaking = FALSE
    /\ isSpeakingRef = FALSE
    /\ error = "null"
    /\ recognitionRef = 0
    /\ rec = [r \in RecIds |-> NoRec]
    /\ nRec = 0
    /\ pendingInit = 0
    /\ speaking = FALSE
    /\ cancelled = 0
    /\ awaitingEnd = 0
    /\ resumeTimers = 0
    /\ nResults = 0
    /\ lastCall = NoCall
    /\ heard = [r \in RecIds |-> <<>>]

-----------------------------------------------------------------------------
(* The voice toggle button and the effects its render runs *)

\* Start Voice Chat: setVoiceEnabled(true); startListening() returns early
\* because isEnabledRef is still false. The render then runs the cleanup of
\* the previous effect (whose closure has isEnabled = false: abort, cancel,
\* reset), the isEnabledRef sync and the effect body (initializeVoiceMode).
ClickEnable ==
    /\ ~voiceEnabled
    /\ ~isUnmountedRef
    /\ nRec + pendingInit < MaxRec
    /\ voiceEnabled' = TRUE
    /\ rec' = AbortRec(rec, recognitionRef)
    /\ cancelled' = CancelCount(speaking, cancelled)
    /\ UNCHANGED awaitingEnd
    /\ speaking' = FALSE
    /\ isListening' = FALSE
    /\ isSpeaking' = FALSE
    /\ isSpeakingRef' = FALSE
    /\ isEnabledRef' = TRUE
    /\ isUnmountedRef' = FALSE
    /\ pendingInit' = InitializeVoiceMode(
                         InitializeVoiceMode(pendingInit, isEnabledRef, isUnmountedRef),
                         TRUE, FALSE)
    /\ UNCHANGED <<error, recognitionRef, nRec, resumeTimers, nResults, lastCall, heard>>
    /\ UNCHANGED chatVars

\* Stop Voice Chat: setVoiceEnabled(false); stopSpeaking(); stopListening().
\* The cleanup the render runs has isEnabled = true in its closure and does
\* nothing; the isEnabledRef sync follows.
ClickDisable ==
    /\ voiceEnabled
    /\ ~isUnmountedRef
    /\ voiceEnabled' = FALSE
    /\ cancelled' = CancelCount(speaking, cancelled)
    /\ UNCHANGED awaitingEnd
    /\ speaking' = FALSE
    /\ isSpeakingRef' = FALSE
    /\ isSpeaking' = FALSE
    /\ rec' = AbortRec(rec, recognitionRef)
    /\ isListening' = FALSE
    /\ isEnabledRef' = FALSE
    /\ isUnmountedRef' = FALSE
    /\ UNCHANGED <<error, recognitionRef, nRec, pendingInit, resumeTimers, nResults,
                   lastCall, heard>>
    /\ UNCHANGED chatVars

-----------------------------------------------------------------------------
(* initializeVoiceMode after the await *)

\* getUserMedia resolved: a new recognition object is created, stored in
\* recognitionRef and started; nothing is checked again after the await
PermissionGranted ==
    /\ pendingInit > 0
    /\ nRec < MaxRec
    /\ pendingInit' = pendingInit - 1
    /\ nRec' = nRec + 1
    /\ recognitionRef' = nRec + 1
    /\ rec' = [rec EXCEPT ![nRec + 1] = [st |-> "starting", timers |-> 0, buf |-> <<>>]]
    /\ UNCHANGED <<voiceEnabled, isEnabledRef, isUnmountedRef, isListening, isSpeaking,
                   isSpeakingRef, error, speaking, cancelled, awaitingEnd, resumeTimers, nResults,
                   lastCall, heard>>
    /\ UNCHANGED chatVars

\* getUserMedia rejected: the catch block
PermissionDenied ==
    /\ pendingInit > 0
    /\ pendingInit' = pendingInit - 1
    /\ error' = "Failed to start"
    /\ isListening' = FALSE
    /\ UNCHANGED <<voiceEnabled, isEnabledRef, isUnmountedRef, isSpeaking, isSpeakingRef,
                   recognitionRef, rec, nRec, speaking, cancelled, awaitingEnd, resumeTimers,
                   nResults, lastCall, heard>>
    /\ UNCHANGED chatVars

-----------------------------------------------------------------------------
(* Recognition events *)

\* recognition.onstart
RecOnStart(r) ==
    /\ rec[r].st = "starting"
    /\ rec' = [rec EXCEPT ![r].st = "listening"]
    /\ isListening' = TRUE
    /\ error' = "null"
    /\ UNCHANGED <<voiceEnabled, isEnabledRef, isUnmountedRef, isSpeaking, isSpeakingRef,
                   recognitionRef, nRec, pendingInit, speaking, cancelled, awaitingEnd, resumeTimers,
                   nResults, lastCall, heard>>
    /\ UNCHANGED chatVars

\* recognition.onresult for an event whose new results are at most one final
\* result (fin, <<>> when there is none) followed by at most one interim result
RecOnResult(r, fin, interim) ==
    /\ rec[r].st = "listening"
    /\ nResults < MaxResults
    /\ fin # <<>> \/ interim # <<>>
    /\ LET finalTranscript == IF fin # <<>> THEN fin \o <<Space>> ELSE <<>>
           current == IF finalTranscript # <<>>
                      THEN rec[r].buf \o finalTranscript
                      ELSE rec[r].buf
           display == current \o interim
           cleared == ClearTimeout(rec[r].timers)
           armed   == IF Trim(current) # <<>> THEN cleared + 1 ELSE cleared
       IN  /\ rec' = [rec EXCEPT ![r].buf = current, ![r].timers = armed]
           /\ lastCall' = IF Trim(display) # <<>>
                          THEN [text |-> Trim(display), final |-> FALSE, rec |-> r]
                          ELSE lastCall
           /\ heard' = IF fin # <<>> THEN [heard EXCEPT ![r] = Append(@, fin)] ELSE heard
    /\ nResults' = nResults + 1
    /\ UNCHANGED <<voiceEnabled, isEnabledRef, isUnmountedRef, isListening, isSpeaking,
                   isSpeakingRef, error, recognitionRef, nRec, pendingInit, speaking,
                   cancelled, awaitingEnd, resumeTimers>>
    /\ UNCHANGED chatVars

\* the silenceTimer callback, 1200 ms after the result that armed it
SilenceElapsed(r) ==
    /\ rec[r].timers > 0
    /\ lastCall' = [text |-> Trim(rec[r].buf), final |-> TRUE, rec |-> r]
    /\ rec' = [rec EXCEPT ![r].buf = <<>>, ![r].timers = @ - 1]
    /\ heard' = [heard EXCEPT ![r] = <<>>]
    /\ UNCHANGED <<voiceEnabled, isEnabledRef, isUnmountedRef, isListening, isSpeaking,
                   isSpeakingRef, error, recognitionRef, nRec, pendingInit, speaking,
                   cancelled, awaitingEnd, resumeTimers, nResults>>
    /\ UNCHANGED chatVars

\* recognition.onend: clears the silence timer, then restarts this object
\* or reports that listening stopped
OnEndHandler(r) ==
    /\ LET ended == [rec EXCEPT ![r].st = "idle", ![r].timers = ClearTimeout(@)]
       IN  IF ~isSpeakingRef /\ isEnabledRef /\ ~isUnmountedRef
           THEN /\ rec' = StartRec(ended, r)
                /\ UNCHANGED isListening
           ELSE /\ rec' = ended
                /\ isListening' = FALSE
    /\ UNCHANGED <<voiceEnabled, isEnabledRef, isUnmountedRef, isSpeaking, isSpeakingRef,
                   error, recognitionRef, nRec, pendingInit, speaking, cancelled, awaitingEnd,
                   resumeTimers, nResults, lastCall, heard>>
    /\ UNCHANGED chatVars

\* the end event of a session that abort() tore down
RecOnEndAborted(r) ==
    /\ rec[r].st = "aborted"
    /\ OnEndHandler(r)

\* the end event of a session the recognizer ended by itself
RecOnEndUnexpected(r) ==
    /\ rec[r].st = "listening"
    /\ OnEndHandler(r)

\* recognition.onerror with the error 'not-allowed': the recognizer refuses
\* to capture and ends the session, the end event follows
RecOnErrorNotAllowed(r) ==
    /\ RecActive(r)
    /\ rec' = [rec EXCEPT ![r].st = "refused"]
    /\ error' = "Microphone access denied."
    /\ isListening' = FALSE
    /\ UNCHANGED <<voiceEnabled, isEnabledRef, isUnmountedRef, isSpeaking, isSpeakingRef,
                   recognitionRef, nRec, pendingInit, speaking, cancelled, awaitingEnd, resumeTimers,
                   nResults, lastCall, heard>>
    /\ UNCHANGED chatVars

\* the end event of a session that ended with the not-allowed error
RecOnEndRefused(r) ==
    /\ rec[r].st = "refused"
    /\ OnEndHandler(r)

-----------------------------------------------------------------------------
(* Speech synthesis *)

\* speak(text, onBoundary) with a non-empty text (an empty one returns at
\* once): mark speaking, pauseListening, cancel, hand the new utterance over
SpeakUpdate ==
    /\ isSpeakingRef' = TRUE
    /\ isSpeaking' = TRUE
    /\ rec' = AbortRec(rec, recognitionRef)
    /\ cancelled' = CancelCount(speaking, cancelled)
    /\ awaitingEnd' = awaitingEnd + 1
    /\ speaking' = TRUE

\* the model keeps at most MaxCancelled cancelled utterances waiting for
\* their terminal event
SpeakAllowed == cancelled + (IF speaking THEN 1 ELSE 0) <= MaxCancelled

\* a speak() call of a component that uses the hook
Speak ==
    /\ ~isUnmountedRef
    /\ SpeakAllowed
    /\ SpeakUpdate
    /\ UNCHANGED <<voiceEnabled, isEnabledRef, isUnmountedRef, isListening, error,
                   recognitionRef, nRec, pendingInit, resumeTimers, nResults,
                   lastCall, heard>>
    /\ UNCHANGED chatVars

\* utterance.onend
UtteranceOnEnd ==
    /\ resumeTimers < MaxResume
    /\ isSpeakingRef' = FALSE
    /\ isSpeaking' = FALSE
    /\ awaitingEnd' = awaitingEnd - 1
    /\ resumeTimers' = resumeTimers + 1
    /\ UNCHANGED rec

\* an onerror handler that only resumes listening
UtteranceOnErrorSilent ==
    /\ UNCHANGED <<isSpeakingRef, isSpeaking, awaitingEnd>>
    /\ rec' = ResumeListening(rec, recognitionRef, isSpeakingRef, isEnabledRef)
    /\ UNCHANGED resumeTimers

\* utterance.onerror
UtteranceOnError ==
    /\ isSpeakingRef' = FALSE
    /\ isSpeaking' = FALSE
    /\ awaitingEnd' = awaitingEnd - 1
    /\ rec' = ResumeListening(rec, recognitionRef, FALSE, isEnabledRef)
    /\ UNCHANGED resumeTimers

\* the utterance being spoken finishes
SpeechEnds ==
    /\ speaking
    /\ speaking' = FALSE
    /\ UtteranceOnEnd
    /\ UNCHANGED <<voiceEnabled, isEnabledRef, isUnmountedRef, isListening, error,
                   recognitionRef, nRec, pendingInit, cancelled, nResults, lastCall,
                   heard>>
    /\ UNCHANGED chatVars

\* the utterance being spoken fails
SpeechFails ==
    /\ speaking
    /\ speaking' = FALSE
    /\ UtteranceOnError
    /\ UNCHANGED <<voiceEnabled, isEnabledRef, isUnmountedRef, isListening, error,
                   recognitionRef, nRec, pendingInit, cancelled, nResults, lastCall,
                   heard>>
    /\ UNCHANGED chatVars

\* the terminal event of an utterance that cancel() removed: an error event
\* (interrupted / canceled) or, on other engines, an end event
CancelledSpeechError ==
    /\ cancelled > 0
    /\ cancelled' = cancelled - 1
    /\ UtteranceOnError
    /\ UNCHANGED <<voiceEnabled, isEnabledRef, isUnmountedRef, isListening, error,
                   recognitionRef, nRec, pendingInit, speaking, nResults, lastCall,
                   heard>>
    /\ UNCHANGED chatVars

CancelledSpeechEnd ==
    /\ cancelled > 0
    /\ cancelled' = cancelled - 1
    /\ UtteranceOnEnd
    /\ UNCHANGED <<voiceEnabled, isEnabledRef, isUnmountedRef, isListening, error,
                   recognitionRef, nRec, pendingInit, speaking, nResults, lastCall,
                   heard>>
    /\ UNCHANGED chatVars

\* the 100 ms timer of utterance.onend
ResumeTimerFires ==
    /\ resumeTimers > 0
    /\ resumeTimers' = resumeTimers - 1
    /\ rec' = ResumeListening(rec, recognitionRef, isSpeakingRef, isEnabledRef)
    /\ UNCHANGED <<voiceEnabled, isEnabledRef, isUnmountedRef, isListening, isSpeaking,
                   isSpeakingRef, error, recognitionRef, nRec, pendingInit, speaking,
                   cancelled, awaitingEnd, nResults, lastCall, heard>>
    /\ UNCHANGED chatVars

-----------------------------------------------------------------------------
(* Unmount: the cleanup of the enable effect (closure: the current isEnabled) *)
(* and then the unmount cleanup                                              *)
Unmount ==
    /\ ~isUnmountedRef
    /\ isUnmountedRef' = TRUE
    /\ rec' = AbortRec(rec, recognitionRef)
    /\ cancelled' = CancelCount(speaking, cancelled)
    /\ UNCHANGED awaitingEnd
    /\ speaking' = FALSE
    /\ IF ~voiceEnabled
       THEN /\ isListening' = FALSE
            /\ isSpeaking' = FALSE
            /\ isSpeakingRef' = FALSE
       ELSE UNCHANGED <<isListening, isSpeaking, isSpeakingRef>>
    /\ UNCHANGED <<voiceEnabled, isEnabledRef, error, recognitionRef, nRec, pendingInit,
                   resumeTimers, nResults, lastCall, heard>>
    /\ UNCHANGED chatVars

-----------------------------------------------------------------------------
(* QuizModal: the voice command router                                       *)
(*                                                                           *)
(* Transcripts, options and answers are strings: sequences of one-character  *)
(* strings.                                                                  *)

UpperCase == <<"A", "B", "C", "D", "E", "F", "G", "H", "I", "J", "K", "L", "M",
               "N", "O", "P", "Q", "R", "S", "T", "U", "V", "W", "X", "Y", "Z">>
LowerCase == <<"a", "b", "c", "d", "e", "f", "g", "h", "i", "j", "k", "l", "m",
               "n", "o", "p", "q", "r", "s", "t", "u", "v", "w", "x", "y", "z">>

\* String.prototype.toLowerCase
ToLowerCase(s) ==
    [i \in 1..Len(s) |->
        IF \E k \in 1..Len(UpperCase) : UpperCase[k] = s[i]
        THEN LowerCase[CHOOSE k \in 1..Len(UpperCase) : UpperCase[k] = s[i]]
        ELSE s[i]]

\* the class [.,!?;:]
Punctuation == {".", ",", "!", "?", ";", ":"}

\* s.toLowerCase().replace(/[.,!?;:]/g, '').trim()
Normalize(s) == Trim(SelectSeq(ToLowerCase(s), LAMBDA c : c \notin Punctuation))

\* String.prototype.includes
Includes(s, sub) ==
    \E i \in 0..Len(s) : i + Len(sub) <= Len(s) /\ SubSeq(s, i + 1, i + Len(sub)) = sub

\* s.split(' ')
RECURSIVE Split(_)
Split(s) ==
    IF \A i \in 1..Len(s) : s[i] # Space THEN <<s>>
    ELSE LET k == CHOOSE i \in 1..Len(s) : s[i] = Space /\ \A j \in 1..(i - 1) : s[j] # Space
         IN  <<SubSeq(s, 1, k - 1)>> \o Split(SubSeq(s, k + 1, Len(s)))

\* Array.prototype.includes
HasWord(words, w) == \E i \in 1..Len(words) : words[i] = w

Min(a, b) == IF a < b THEN a ELSE b

\* the inner loop of calculateSimilarity in row i, from st.j on: the loop
\* variables after it
RECURSIVE SimilarityRow(_, _, _, _)
SimilarityRow(longer, shorter, i, st) ==
    IF st.j > Len(shorter) THEN st
    ELSE IF i = 0
         THEN SimilarityRow(longer, shorter, i,
                            [st EXCEPT !.costs[st.j] = st.j, !.j = st.j + 1])
    ELSE IF st.j > 0
         THEN LET diag == st.costs[st.j - 1]
                  newValue == IF longer[i] # shorter[st.j]
                              THEN Min(Min(diag, st.lastValue), st.costs[st.j]) + 1
                              ELSE diag
              IN  SimilarityRow(longer, shorter, i,
                                [j |-> st.j + 1,
                                 costs |-> [st.costs EXCEPT ![st.j - 1] = st.lastValue],
                                 lastValue |-> newValue])
    ELSE SimilarityRow(longer, shorter, i, [st EXCEPT !.j = st.j + 1])

\* the outer loop of calculateSimilarity from st.i on: the costs array
RECURSIVE SimilarityRows(_, _, _)
SimilarityRows(longer, shorter, st) ==
    IF st.i > Len(longer) THEN st.costs
    ELSE LET row == SimilarityRow(longer, shorter, st.i,
                                  [j |-> 0, costs |-> st.costs, lastValue |-> st.i])
         IN  SimilarityRows(longer, shorter,
                            [i |-> st.i + 1,
                             costs |-> IF st.i > 0
                                       THEN [row.costs EXCEPT ![Len(shorter)] = row.lastValue]
                                       ELSE row.costs])

\* calculateSimilarity: the quotient as numerator and denominator
calculateSimilarity(s1, s2) ==
    LET longer == IF Len(s1) > Len(s2) THEN s1 ELSE s2
        shorter == IF Len(s1) > Len(s2) THEN s2 ELSE s1
    IN  IF Len(longer) = 0 THEN [num |-> 1, den |-> 1]
        ELSE LET costs == SimilarityRows(longer, shorter,
                                         [i |-> 0, costs |-> [j \in 0..Len(shorter) |-> 0]])
             IN  [num |-> Len(longer) - costs[Len(shorter)], den |-> Len(longer)]

\* a > b for quotients
ScoreAbove(a, b) == a.num * b.den > b.num * a.den

\* what the student says to the quiz
SayNext ==
    <<"n", "e", "x", "t">>
SayNextPlease ==
    <<"n", "e", "x", "t", " ", "p", "l", "e", "a", "s", "e">>
SayPrevious ==
    <<"p", "r", "e", "v", "i", "o", "u", "s">>
SaySubmit ==
    <<"s", "u", "b", "m", "i", "t">>
SayRepeat ==
    <<"r", "e", "p", "e", "a", "t">>
SayParis ==
    <<"I", " ", "t", "h", "i", "n", "k", " ", "i", "t", "'", "s", " ", "p",
      "a", "r", "i", "s">>
SayParisOrLondon ==
    <<"p", "a", "r", "i", "s", " ", "o", "r", " ", "l", "o", "n", "d", "o", "n">>
SayOptionB ==
    <<"o", "p", "t", "i", "o", "n", " ", "b">>
SayNonsense ==
    <<"p", "u", "r", "p", "l", "e", " ", "m", "o", "n", "k", "e", "y", " ",
      "d", "i", "s", "h", "w", "a", "s", "h", "e", "r">>
SayNo ==
    <<"n", "o", " ", "I", " ", "d", "o", "n", "'", "t", " ", "t", "h", "i",
      "n", "k", " ", "s", "o">>
SayYes ==
    <<"Y", "e", "s", ".">>
SayShort ==
    <<"T", "h", "e", " ", "N", "i", "l", "e", "!">>

\* the questions of the quiz the server sends
OptionParis == <<"A", ")", " ", "P", "a", "r", "i", "s">>
OptionLondon == <<"B", ")", " ", "L", "o", "n", "d", "o", "n">>
OptionBerlin == <<"C", ")", " ", "B", "e", "r", "l", "i", "n">>
OptionMadrid == <<"D", ")", " ", "M", "a", "d", "r", "i", "d">>
NoOptions == <<>>

\* quiz 1 has three questions, quiz 2 has one, quiz 3 is a quiz whose
\* questions are an empty list; 0 stands for the initial [] of quizQuestions
QuizQuestion(k) ==
    IF k = 1
    THEN << [type |-> "multiple_choice",
             options |-> <<OptionParis, OptionLondon, OptionBerlin, OptionMadrid>>],
            [type |-> "true_false", options |-> NoOptions],
            [type |-> "short_answer", options |-> NoOptions] >>
    ELSE IF k = 2
    THEN << [type |-> "true_false", options |-> NoOptions] >>
    ELSE <<>>

\* the words processVoiceCommand looks for
WordNext == <<"n", "e", "x", "t">>
WordNextQuestion == <<"n", "e", "x", "t", " ", "q", "u", "e", "s", "t", "i", "o", "n">>
WordGoForward == <<"g", "o", " ", "f", "o", "r", "w", "a", "r", "d">>
WordPrevious == <<"p", "r", "e", "v", "i", "o", "u", "s">>
WordBack == <<"b", "a", "c", "k">>
WordGoBack == <<"g", "o", " ", "b", "a", "c", "k">>
WordSubmit == <<"s", "u", "b", "m", "i", "t">>
WordSubmitQuiz == <<"s", "u", "b", "m", "i", "t", " ", "q", "u", "i", "z">>
WordFinish == <<"f", "i", "n", "i", "s", "h">>
WordDone == <<"d", "o", "n", "e">>
WordRepeat == <<"r", "e", "p", "e", "a", "t">>
WordReadAgain == <<"r", "e", "a", "d", " ", "a", "g", "a", "i", "n">>
WordRead == <<"r", "e", "a", "d">>
WordOption == <<"o", "p", "t", "i", "o", "n">>
WordTrue == <<"t", "r", "u", "e">>
WordYes == <<"y", "e", "s">>
WordFalse == <<"f", "a", "l", "s", "e">>
WordNo == <<"n", "o">>
AnswerTrue == <<"T", "r", "u", "e">>
AnswerFalse == <<"F", "a", "l", "s", "e">>
Blank == <<>>

\* opt[0]
FirstChar(s) == IF Len(s) > 0 THEN <<s[1]>> ELSE Blank

\* question.options[i]?.[0], Blank for undefined
OptionLetter(question, i) ==
    IF i <= Len(question.options) THEN FirstChar(question.options[i]) ELSE Blank

\* 1. Direct Option Check (A, B, C, D)
DirectOption(lower, question) ==
    LET words == Split(lower)
        Says(c) == lower = WordOption \o <<Space, c>> \/ lower = <<c>> \/ HasWord(words, <<c>>)
    IN  CASE Says("a") -> OptionLetter(question, 1)
          [] Says("b") -> OptionLetter(question, 2)
          [] Says("c") -> OptionLetter(question, 3)
          [] Says("d") -> OptionLetter(question, 4)
          [] OTHER -> Blank

\* the body of question.options.forEach in the content matching, given
\* optionText and score
FuzzyUpdate(best, opt, lower, optionText, score) ==
    IF Includes(lower, optionText) /\ Len(optionText) > 2
    THEN [bestScore |-> [num |-> 1, den |-> 1], bestMatch |-> FirstChar(opt)]
    ELSE IF ScoreAbove(score, best.bestScore)
    THEN [bestScore |-> score, bestMatch |-> FirstChar(opt)]
    ELSE best

\* the score of an option whose text is optionText
FuzzyScore(best, opt, lower, optionText) ==
    FuzzyUpdate(best, opt, lower, optionText, calculateSimilarity(lower, optionText))

\* one pass of question.options.forEach in the content matching
FuzzyStep(best, opt, lower) ==
    FuzzyScore(best, opt, lower, Normalize(SubSeq(opt, 4, Len(opt))))

RECURSIVE FuzzyLoop(_, _, _)
FuzzyLoop(best, options, lower) ==
    IF options = <<>> THEN best
    ELSE FuzzyLoop(FuzzyStep(best, Head(options), lower), Tail(options), lower)

\* the content matching without its threshold
FuzzyMatchAnyScore(lower, question) ==
    FuzzyLoop([bestScore |-> [num |-> 0, den |-> 1], bestMatch |-> Blank],
              question.options, lower).bestMatch

\* 2. Fuzzy Content Matching: bestMatch when bestScore > 0.6
FuzzyMatch(lower, question) ==
    LET best == FuzzyLoop([bestScore |-> [num |-> 0, den |-> 1], bestMatch |-> Blank],
                          question.options, lower)
    IN  IF best.bestScore.num * 10 > 6 * best.bestScore.den THEN best.bestMatch ELSE Blank

\* a, or b when a is Blank (null)
OrElse(a, b) == IF a # Blank THEN a ELSE b

\* detectedAnswer when a true_false answer had to be the whole transcript
DetectedAnswerWholeWord(lower, question) ==
    CASE question.type = "multiple_choice" ->
            OrElse(DirectOption(lower, question), FuzzyMatch(lower, question))
      [] question.type = "true_false" ->
            IF lower = WordTrue \/ lower = WordYes THEN AnswerTrue
            ELSE IF lower = WordFalse \/ lower = WordNo THEN AnswerFalse
            ELSE Blank
      [] OTHER -> Blank

\* detectedAnswer of a multiple_choice or true_false question, Blank for null
DetectedAnswer(lower, question) ==
    CASE question.type = "multiple_choice" ->
            OrElse(DirectOption(lower, question), FuzzyMatch(lower, question))
      [] question.type = "true_false" ->
            IF Includes(lower, WordTrue) \/ Includes(lower, WordYes) THEN AnswerTrue
            ELSE IF Includes(lower, WordFalse) \/ Includes(lower, WordNo) THEN AnswerFalse
            ELSE Blank
      [] OTHER -> Blank

\* the end of processVoiceCommand when no answer meant the first option
AnswerCommandGuessing(detectedAnswer) ==
    [act |-> "select", value |-> OrElse(detectedAnswer, <<"A">>)]

\* the end of processVoiceCommand: if (detectedAnswer) ... else ...
AnswerCommand(detectedAnswer) ==
    IF detectedAnswer # Blank
    THEN [act |-> "select", value |-> detectedAnswer]
    ELSE [act |-> "hint", value |-> Blank]

\* processVoiceCommand from its second statement on
RouteCommand(lower, transcript, question) ==
    CASE lower = WordNext \/ Includes(lower, WordNextQuestion)
            \/ Includes(lower, WordGoForward) ->
            [act |-> "next", value |-> Blank]
      [] lower = WordPrevious \/ lower = WordBack \/ Includes(lower, WordGoBack) ->
            [act |-> "previous", value |-> Blank]
      [] lower = WordSubmit \/ Includes(lower, WordSubmitQuiz)
            \/ Includes(lower, WordFinish) \/ Includes(lower, WordDone) ->
            [act |-> "submit", value |-> Blank]
      [] Includes(lower, WordRepeat) \/ Includes(lower, WordReadAgain)
            \/ lower = WordRead ->
            [act |-> "repeat", value |-> Blank]
      [] question.type = "short_answer" ->
            [act |-> "typed", value |-> transcript]
      [] OTHER -> AnswerCommand(DetectedAnswer(lower, question))

\* what processVoiceCommand does with a transcript on a question: the branch
\* it takes and the answer it records
processVoiceCommand(transcript, question) ==
    RouteCommand(Normalize(transcript), transcript, question)

-----------------------------------------------------------------------------
(* ChatInterface: the voice handler and the streamed reply                   *)
(*                                                                           *)
(* A state update and the render it causes are part of the handler's step.   *)
(* The passive effects of a render (the ref syncs and the speech trigger)    *)
(* run in a later step of the event loop, FlushEffects.                      *)

\* voice requests over a run
MaxReq == 2
\* stream lines over a run
MaxLines == 3
\* lines one read() returns
MaxChunk == 2

ReqIds == 1..MaxReq

\* what the student says
Transcripts == {<<"t">>}

NullText == <<>>

\* the fallback of the catch block
ErrorText == <<"sorry">>

ReplyTexts == {<<"r1">>, <<"r2">>}
ScheduleText == <<"s">>
SessionIds == {1, 2}
QuizIds == {1}

\* the lines of a streamed body, as JSON.parse sees them
ResponseLines == {[type |-> "response", content |-> c, session_id |-> 0, quiz |-> 0,
                   schedule |-> FALSE] : c \in ReplyTexts}
SessionLines  == {[type |-> "session_info", content |-> NullText, session_id |-> i,
                   quiz |-> 0, schedule |-> FALSE] : i \in SessionIds}
QuizLines     == {[type |-> "control", content |-> NullText, session_id |-> 0,
                   quiz |-> k, schedule |-> FALSE] : k \in QuizIds}
ScheduleLine  == [type |-> "control", content |-> NullText, session_id |-> 0,
                  quiz |-> 0, schedule |-> TRUE]
\* a line JSON.parse rejects
MalformedLine == [type |-> "malformed", content |-> NullText, session_id |-> 0,
                  quiz |-> 0, schedule |-> FALSE]

StreamLines == ResponseLines \cup SessionLines \cup QuizLines
                  \cup {ScheduleLine, MalformedLine}

\* the chunks a read() can return: the lines of chunk.split('\n') that are
\* not blank
Chunks(lines) == UNION {[1..n -> lines] : n \in 1..MaxChunk}

UserMessage(t) == [role |-> "user", content |-> t, isVoice |-> FALSE]
VoiceReply(c) == [role |-> "assistant", content |-> c, isVoice |-> TRUE]
ErrorMessage == [role |-> "assistant", content |-> ErrorText, isVoice |-> FALSE]

NoVoiceInput == [text |-> NullText, isFinal |-> FALSE]
\* pc: where the call is suspended; sid: its currentSessionId; replies: the
\* contents of the response events its reader returned so far; pat: how much
\* of the sequence response, unparseable line, response its latest lines make up
\* no typed message was sent yet: pc is the position of handleSendMessage
\* (idle, or suspended at the service call or at the backoff timer), sid the
\* sessionId of its closure, calls the calls of the chat endpoint for this
\* message, before the message list when it was called, sent the number of
\* typed messages so far
NoSend == [pc |-> "idle", userMessage |-> NullText, retryCount |-> 0, success |-> FALSE,
           sid |-> 0, calls |-> 0, before |-> <<>>, sent |-> 0]

NoReq == [pc |-> "none", sid |-> 0, replies |-> <<>>, pat |-> 0]

\* the contents of the response events among lines, in order
RECURSIVE ResponseContents(_)
ResponseContents(lines) ==
    IF lines = <<>> THEN <<>>
    ELSE IF Head(lines).type = "response"
         THEN <<Head(lines).content>> \o ResponseContents(Tail(lines))
         ELSE ResponseContents(Tail(lines))

\* pat after one more line
PatternAfter(pat, line) ==
    CASE pat = 3 -> 3
      [] line.type = "response" -> IF pat = 2 THEN 3 ELSE 1
      [] line.type = "malformed" /\ pat = 1 -> 2
      [] OTHER -> 0

RECURSIVE PatternAfterAll(_, _)
PatternAfterAll(pat, lines) ==
    IF lines = <<>> THEN pat
    ELSE PatternAfterAll(PatternAfter(pat, Head(lines)), Tail(lines))

NoFeedback == [kind |-> "", arg |-> Blank]

\* the QuizModal is rendered
QuizMounted == showQuiz /\ Len(QuizQuestion(quizQuestions)) > 0

\* no QuizModal is mounted
QuizInit ==
    /\ taskData = FALSE
    /\ submitsPending = 0
    /\ answers = <<>>
    /\ currentQuestion = 0
    /\ voiceFeedback = NoFeedback
    /\ hasSpokenRef = FALSE
    /\ quizEffect = FALSE
    /\ autoRead = FALSE
    /\ submitCalls = 0
    /\ commandHandled = FALSE

\* a step of ChatInterface that leaves the quiz alone: when it changed state,
\* ChatInterface renders again and with it a mounted QuizModal, whose
\* processVoiceCommand is rebuilt by every render (calculateSimilarity is a
\* new function each time), so that the voice input effect is due again
QuizRenders(changed) ==
    /\ quizEffect' = (quizEffect \/ (changed /\ QuizMounted))
    /\ UNCHANGED <<taskData, submitsPending, answers, currentQuestion, voiceFeedback,
                   hasSpokenRef, autoRead, submitCalls, commandHandled>>

\* a step of handleVoiceInput: its transcript is a new voice input of the quiz
\* when it went to quizVoiceInput
QuizHears(changed, toQuiz) ==
    /\ quizEffect' = (quizEffect \/ (changed /\ QuizMounted))
    /\ commandHandled' = (commandHandled /\ ~toQuiz)
    /\ UNCHANGED <<taskData, submitsPending, answers, currentQuestion, voiceFeedback,
                   hasSpokenRef, autoRead, submitCalls>>

\* QuizModal mounts with the questions of quiz k
MountQuiz(k) ==
    /\ answers' = [i \in 1..Len(QuizQuestion(k)) |-> Blank]
    /\ currentQuestion' = 0
    /\ voiceFeedback' = NoFeedback
    /\ hasSpokenRef' = FALSE
    /\ quizEffect' = TRUE
    /\ autoRead' = TRUE
    /\ submitCalls' = 0
    /\ UNCHANGED <<taskData, submitsPending, commandHandled>>

ChatInit ==
    /\ QuizInit
    /\ messages = <<>>
    /\ loading = FALSE
    /\ interimTranscript = NullText
    /\ sessionId = 0
    /\ sessionIdRef = 0
    /\ showQuiz = FALSE
    /\ quizQuestions = 0
    /\ quizTimers = <<>>
    /\ responseToSpeak = NullText
    /\ quizVoiceInput = NoVoiceInput
    /\ onTranscriptRef = FALSE
    /\ req = [q \in ReqIds |-> NoReq]
    /\ nReq = 0
    /\ send = NoSend
    /\ nLines = 0
    /\ spokenReplies = 0

\* the state the read loop and the catch block update
ChatState == [messages |-> messages, responseToSpeak |-> responseToSpeak,
              sessionId |-> sessionId, quizTimers |-> quizTimers]

\* one line of a chunk, inside the per-line try: a line that does not parse
\* throws into the per-line catch and is skipped
HandleLine(st, line, sid) ==
    CASE line.type = "session_info" ->
            IF line.session_id # 0 /\ sid = 0
            THEN [st EXCEPT !.sessionId = line.session_id]
            ELSE st
      [] line.type = "response" ->
            [st EXCEPT !.messages = Append(@, VoiceReply(line.content)),
                       !.responseToSpeak = line.content]
      [] line.type = "control" ->
            LET withQuiz == IF line.quiz # 0
                            THEN [st EXCEPT !.quizTimers = Append(@, line.quiz)]
                            ELSE st
                n == Len(withQuiz.messages)
            IN  IF line.schedule /\ n > 0 /\ withQuiz.messages[n].role = "assistant"
                THEN [withQuiz EXCEPT !.messages[n].content = @ \o ScheduleText]
                ELSE withQuiz
      [] OTHER -> st

\* a loop that a line which does not parse would end
RECURSIVE ProcessLinesUntilBadLine(_, _, _)
ProcessLinesUntilBadLine(st, lines, sid) ==
    IF lines = <<>> \/ Head(lines).type = "malformed" THEN st
    ELSE ProcessLinesUntilBadLine(HandleLine(st, Head(lines), sid), Tail(lines), sid)

\* for (const line of lines)
RECURSIVE ProcessLines(_, _, _)
ProcessLines(st, lines, sid) ==
    IF lines = <<>> THEN st
    ELSE ProcessLines(HandleLine(st, Head(lines), sid), Tail(lines), sid)

\* the updater of the outer catch block
CatchUpdate(st) ==
    LET n == Len(st.messages)
    IN  IF n > 0 /\ st.messages[n].role = "assistant" /\ Len(st.messages[n].content) > 0
        THEN st
        ELSE [st EXCEPT !.messages = Append(@, ErrorMessage),
                        !.responseToSpeak = ErrorText]

\* handleVoiceInput(transcript, true), called through onTranscriptRef.current
\* by the silence timer of the hook
VoiceFinal(t) ==
    /\ nRec > 0
    /\ IF onTranscriptRef
       THEN /\ quizVoiceInput' = [text |-> t, isFinal |-> TRUE]
            /\ UNCHANGED <<messages, loading, interimTranscript, req, nReq>>
       ELSE /\ nReq < MaxReq
            /\ interimTranscript' = NullText
            /\ loading' = TRUE
            /\ messages' = Append(messages, UserMessage(t))
            /\ nReq' = nReq + 1
            /\ req' = [req EXCEPT ![nReq + 1] =
                          [pc |-> "fetch", sid |-> sessionIdRef, replies |-> <<>>, pat |-> 0]]
            /\ UNCHANGED quizVoiceInput
    /\ UNCHANGED <<sessionId, sessionIdRef, showQuiz, quizQuestions, quizTimers,
                   responseToSpeak, onTranscriptRef, nLines, spokenReplies, send>>
    /\ QuizHears(TRUE, onTranscriptRef)
    /\ UNCHANGED hookVars

\* handleVoiceInput(transcript, false), called by onresult of the hook
VoiceInterim(t) ==
    /\ nRec > 0
    /\ IF onTranscriptRef
       THEN /\ quizVoiceInput' = [text |-> t, isFinal |-> FALSE]
            /\ UNCHANGED interimTranscript
       ELSE /\ interimTranscript' = t
            /\ UNCHANGED quizVoiceInput
    /\ UNCHANGED <<messages, loading, sessionId, sessionIdRef, showQuiz, quizQuestions,
                   quizTimers, responseToSpeak, onTranscriptRef, req, nReq, send, nLines,
                   spokenReplies>>
    /\ QuizHears(onTranscriptRef \/ interimTranscript' # interimTranscript,
                 onTranscriptRef)
    /\ UNCHANGED hookVars

\* the fetch resolves with an OK status: the reader is taken
FetchOk(q) ==
    /\ req[q].pc = "fetch"
    /\ req' = [req EXCEPT ![q].pc = "read"]
    /\ UNCHANGED <<messages, loading, interimTranscript, sessionId, sessionIdRef,
                   showQuiz, quizQuestions, quizTimers, responseToSpeak, quizVoiceInput,
                   onTranscriptRef, nReq, send, nLines, spokenReplies>>
    /\ UNCHANGED quizVars
    /\ UNCHANGED hookVars

\* reader.read() returns a chunk: its lines are handled one after the other
ReadChunk(q, chunk) ==
    /\ req[q].pc = "read"
    /\ nLines + Len(chunk) <= MaxLines
    /\ LET st == ProcessLines(ChatState, chunk, req[q].sid)
       IN  /\ messages' = st.messages
           /\ responseToSpeak' = st.responseToSpeak
           /\ sessionId' = st.sessionId
           /\ quizTimers' = st.quizTimers
    /\ req' = [req EXCEPT
                 ![q].replies = @ \o ResponseContents(chunk),
                 ![q].pat = PatternAfterAll(@, chunk)]
    /\ nLines' = nLines + Len(chunk)
    /\ UNCHANGED <<loading, interimTranscript, sessionIdRef, showQuiz, quizQuestions,
                   quizVoiceInput, onTranscriptRef, nReq, send, spokenReplies>>
    /\ QuizRenders(<<messages, responseToSpeak, sessionId>>' # <<messages, responseToSpeak, sessionId>>)
    /\ UNCHANGED hookVars

\* The text of a chunk, as decoder.decode(value) returns it: a sequence of
\* pieces, each a whole line of the body, a line feed, or the first or the
\* remaining part of a line the transport cut in two
LineFeed == [type |-> "lf", content |-> NullText, session_id |-> 0, quiz |-> 0,
             schedule |-> FALSE]
FirstPart(line) == [line EXCEPT !.type = "first part"]
RestPart(line) == [line EXCEPT !.type = "rest part"]

\* the lines of the body, each ended by its line feed
RECURSIVE BodyText(_)
BodyText(lines) ==
    IF lines = <<>> THEN <<>>
    ELSE <<Head(lines), LineFeed>> \o BodyText(Tail(lines))

\* chunk.split('\n'): the pieces between the line feeds
RECURSIVE SplitLines(_, _)
SplitLines(text, line) ==
    IF text = <<>> THEN <<line>>
    ELSE IF Head(text) = LineFeed
         THEN <<line>> \o SplitLines(Tail(text), <<>>)
         ELSE SplitLines(Tail(text), Append(line, Head(text)))

\* JSON.parse(line): a whole line parses to its event; a part of a line, or
\* a line that was not JSON, throws
ParseLine(line) ==
    IF Len(line) = 1 /\ line[1].type \notin {"first part", "rest part", "malformed"}
    THEN line[1]
    ELSE MalformedLine

\* the for loop over chunk.split('\n'): blank lines are passed over, every
\* other line goes through JSON.parse inside the try block
RECURSIVE ParsedLines(_)
ParsedLines(lines) ==
    IF lines = <<>> THEN <<>>
    ELSE IF Head(lines) = <<>> THEN ParsedLines(Tail(lines))
    ELSE <<ParseLine(Head(lines))>> \o ParsedLines(Tail(lines))

\* the text is handled by itself: nothing of an earlier read is kept
ProcessChunkText(st, text, sid) == ProcessLines(st, ParsedLines(SplitLines(text, <<>>)), sid)

\* one pass of the read loop over the text of one read
ReadText(q, text, pc, sent, count) ==
    /\ nLines + count <= MaxLines
    /\ LET st == ProcessChunkText(ChatState, text, req[q].sid)
       IN  /\ messages' = st.messages
           /\ responseToSpeak' = st.responseToSpeak
           /\ sessionId' = st.sessionId
           /\ quizTimers' = st.quizTimers
    /\ req' = [req EXCEPT
                 ![q].pc = pc,
                 ![q].replies = @ \o ResponseContents(sent),
                 ![q].pat = PatternAfterAll(@, ParsedLines(SplitLines(text, <<>>)))]
    /\ nLines' = nLines + count
    /\ UNCHANGED <<loading, interimTranscript, sessionIdRef, showQuiz, quizQuestions,
                   quizVoiceInput, onTranscriptRef, nReq, send, spokenReplies>>
    /\ QuizRenders(<<messages, responseToSpeak, sessionId>>' # <<messages, responseToSpeak, sessionId>>)
    /\ UNCHANGED hookVars

\* reader.read() returns a chunk that ends inside a line: the lines of the
\* chunk and the first part of the next line of the body
ReadChunkCut(q, chunk, line) ==
    /\ req[q].pc = "read"
    /\ ReadText(q, BodyText(chunk) \o <<FirstPart(line)>>, "cut", chunk \o <<line>>,
                Len(chunk) + 1)

\* the read after it: the rest of that line, its line feed, and the lines
\* after it
ReadChunkRest(q, line, chunk) ==
    /\ req[q].pc = "cut"
    /\ ReadText(q, <<RestPart(line), LineFeed>> \o BodyText(chunk), "read", chunk,
                Len(chunk))

\* reader.read() returns done: the loop ends, finally
ReadDone(q) ==
    /\ req[q].pc = "read"
    /\ req' = [req EXCEPT ![q].pc = "done"]
    /\ loading' = FALSE
    /\ UNCHANGED <<messages, interimTranscript, sessionId, sessionIdRef, showQuiz,
                   quizQuestions, quizTimers, responseToSpeak, quizVoiceInput,
                   onTranscriptRef, nReq, send, nLines, spokenReplies>>
    /\ QuizRenders(loading)
    /\ UNCHANGED hookVars

\* the fetch rejects or answers with a non-OK status, or reader.read()
\* rejects: the outer catch block, finally
RequestFails(q) ==
    /\ req[q].pc \in {"fetch", "read"}
    /\ req' = [req EXCEPT ![q].pc = "failed"]
    /\ LET st == CatchUpdate(ChatState)
       IN  /\ messages' = st.messages
           /\ responseToSpeak' = st.responseToSpeak
    /\ loading' = FALSE
    /\ UNCHANGED <<interimTranscript, sessionId, sessionIdRef, showQuiz, quizQuestions,
                   quizTimers, quizVoiceInput, onTranscriptRef, nReq, send, nLines,
                   spokenReplies>>
    /\ QuizRenders(loading \/ messages' # messages)
    /\ UNCHANGED hookVars

\* the 1000 ms timer of a quiz trigger
QuizTimerFires ==
    /\ quizTimers # <<>>
    /\ quizQuestions' = Head(quizTimers)
    /\ showQuiz' = TRUE
    /\ quizTimers' = Tail(quizTimers)
    /\ UNCHANGED <<messages, loading, interimTranscript, sessionId, sessionIdRef,
                   responseToSpeak, quizVoiceInput, onTranscriptRef, req, nReq, send, nLines,
                   spokenReplies>>
    /\ IF QuizMounted /\ QuizMounted'
       THEN /\ quizEffect' = TRUE
            /\ autoRead' = TRUE
            /\ UNCHANGED <<taskData, submitsPending, answers, currentQuestion,
                           voiceFeedback, hasSpokenRef, submitCalls, commandHandled>>
       ELSE IF QuizMounted'
       THEN MountQuiz(Head(quizTimers))
       ELSE /\ answers' = <<>>
            /\ currentQuestion' = 0
            /\ voiceFeedback' = NoFeedback
            /\ hasSpokenRef' = FALSE
            /\ quizEffect' = FALSE
            /\ autoRead' = FALSE
            /\ UNCHANGED <<taskData, submitsPending, submitCalls, commandHandled>>
    /\ UNCHANGED hookVars

\* the passive effects of the last render: sessionIdRef sync, onTranscriptRef
\* sync (the handler is rebuilt when showQuiz changes), and the speech
\* trigger, which speaks responseToSpeak and clears it
FlushEffects ==
    /\ sessionIdRef # sessionId \/ onTranscriptRef # showQuiz \/ responseToSpeak # NullText
    /\ sessionIdRef' = sessionId
    /\ onTranscriptRef' = showQuiz
    /\ IF responseToSpeak # NullText
       THEN /\ SpeakAllowed
            /\ SpeakUpdate
            /\ responseToSpeak' = NullText
            /\ spokenReplies' = IF responseToSpeak \in ReplyTexts
                                THEN spokenReplies + 1 ELSE spokenReplies
       ELSE /\ UNCHANGED <<isSpeakingRef, isSpeaking, rec, cancelled, speaking, awaitingEnd>>
            /\ UNCHANGED <<responseToSpeak, spokenReplies>>
    /\ UNCHANGED <<voiceEnabled, isEnabledRef, isUnmountedRef, isListening, error,
                   recognitionRef, nRec, pendingInit, resumeTimers, nResults,
                   lastCall, heard>>
    /\ UNCHANGED <<messages, loading, interimTranscript, sessionId, showQuiz,
                   quizQuestions, quizTimers, quizVoiceInput, req, nReq, send, nLines>>
    /\ QuizRenders(responseToSpeak # NullText)

-----------------------------------------------------------------------------
(* QuizModal: its effects, and the submission in ChatInterface               *)
(*                                                                           *)
(* The passive effects of a QuizModal render run in one step, QuizEffects,   *)
(* in the order of their declaration: the voice input effect, then the       *)
(* auto-read effect. Both see the state of the render they belong to.        *)

\* onSubmit invocations over a run
MaxSubmits == 2

\* what the student may say while the quiz is open
QuizTranscripts == {SayNext, SayNextPlease, SayParis, SayOptionB, SayNonsense,
                    SayNo, SayYes}

\* what the student says to answer the three questions and submit
SubmitTranscripts == {SayParis, SayYes, SaySubmit}

SystemMessage == [role |-> "system", content |-> <<"quiz">>, isVoice |-> FALSE]

\* the state of the component, with what the effects called: speaks counts
\* the speak() calls, submits the onSubmit calls
QuizState == [answers |-> answers, currentQuestion |-> currentQuestion,
              voiceFeedback |-> voiceFeedback, hasSpokenRef |-> hasSpokenRef,
              setAnswers |-> FALSE, speaks |-> 0, submits |-> 0]

\* handleAnswerChange writing the value to every entry
handleAnswerChangeEverywhere(st, index, value) ==
    [st EXCEPT !.answers = [i \in DOMAIN st.answers |-> value],
               !.setAnswers = TRUE]

\* handleAnswerChange(index, value): a new array every time
handleAnswerChange(st, index, value) ==
    [st EXCEPT !.answers = IF index + 1 \in DOMAIN st.answers
                           THEN [st.answers EXCEPT ![index + 1] = value]
                           ELSE st.answers,
               !.setAnswers = TRUE]

\* handleNext of the render with currentQuestion cq and n questions
handleNext(st, cq, n) ==
    IF cq < n - 1
    THEN [st EXCEPT !.currentQuestion = st.currentQuestion + 1,
                    !.voiceFeedback = NoFeedback,
                    !.hasSpokenRef = FALSE]
    ELSE st

\* handlePrevious
handlePrevious(st, cq) ==
    IF cq > 0
    THEN [st EXCEPT !.currentQuestion = st.currentQuestion - 1,
                    !.voiceFeedback = NoFeedback,
                    !.hasSpokenRef = FALSE]
    ELSE st

\* the positions of the answers that are the empty string
UnansweredUntrimmed(ans) == {i \in 0..(Len(ans) - 1) : ans[i + 1] = Blank}

\* the positions, from 0, of the answers that are blank after trim()
Unanswered(ans) == {i \in 0..(Len(ans) - 1) : Trim(ans[i + 1]) = Blank}

\* answers.findIndex(a => !a.trim())
FirstUnanswered(ans) ==
    CHOOSE i \in Unanswered(ans) : \A k \in Unanswered(ans) : i <= k

\* handleSubmit of the render with the answers ans
handleSubmit(st, ans) ==
    IF Unanswered(ans) # {}
    THEN [st EXCEPT !.voiceFeedback = [kind |-> "unanswered",
                                       arg |-> <<FirstUnanswered(ans) + 1>>],
                    !.currentQuestion = FirstUnanswered(ans),
                    !.hasSpokenRef = FALSE]
    ELSE [st EXCEPT !.submits = st.submits + 1]

\* processVoiceCommand(text) of the render whose state is st: what it does
\* with the command cmd it made out
RunCommand(st, cmd, questions) ==
    CASE cmd.act = "next" -> handleNext(st, st.currentQuestion, Len(questions))
      [] cmd.act = "previous" -> handlePrevious(st, st.currentQuestion)
      [] cmd.act = "submit" -> handleSubmit(st, st.answers)
      [] cmd.act = "repeat" ->
            [st EXCEPT !.hasSpokenRef = FALSE, !.speaks = st.speaks + 1]
      [] cmd.act = "typed" ->
            [handleAnswerChange(st, st.currentQuestion, cmd.value) EXCEPT
                !.voiceFeedback = [kind |-> "typed", arg |-> cmd.value]]
      [] cmd.act = "select" ->
            [handleAnswerChange(st, st.currentQuestion, cmd.value) EXCEPT
                !.voiceFeedback = [kind |-> "selected", arg |-> cmd.value]]
      [] OTHER -> [st EXCEPT !.voiceFeedback = [kind |-> "hint", arg |-> Blank]]

\* the voice input effect of the render whose state is st
VoiceInputEffect(st, voiceInput, questions) ==
    IF voiceInput = NoVoiceInput THEN st
    ELSE IF ~voiceInput.isFinal
    THEN [st EXCEPT !.voiceFeedback = [kind |-> "interim", arg |-> voiceInput.text]]
    ELSE RunCommand(st, processVoiceCommand(voiceInput.text,
                                            questions[st.currentQuestion + 1]),
                    questions)

\* the auto-read effect: speaks the question once
AutoReadEffect(st) ==
    IF ~st.hasSpokenRef
    THEN [st EXCEPT !.hasSpokenRef = TRUE, !.speaks = st.speaks + 1]
    ELSE st

\* k speak() calls in a row
SpeakTimes(k) ==
    IF k = 0
    THEN UNCHANGED <<isSpeakingRef, isSpeaking, rec, cancelled, speaking, awaitingEnd>>
    ELSE /\ cancelled + (IF speaking THEN 1 ELSE 0) + (k - 1) <= MaxCancelled
         /\ isSpeakingRef' = TRUE
         /\ isSpeaking' = TRUE
         /\ rec' = AbortRec(rec, recognitionRef)
         /\ cancelled' = CancelCount(speaking, cancelled) + (k - 1)
         /\ awaitingEnd' = awaitingEnd + k
         /\ speaking' = TRUE

\* the QuizModal goes away
UnmountQuiz ==
    /\ answers' = <<>>
    /\ currentQuestion' = 0
    /\ voiceFeedback' = NoFeedback
    /\ hasSpokenRef' = FALSE
    /\ quizEffect' = FALSE
    /\ autoRead' = FALSE

\* the component after the effects that are due
DueEffects ==
    LET voiced == IF quizEffect
                  THEN VoiceInputEffect(QuizState, quizVoiceInput,
                                        QuizQuestion(quizQuestions))
                  ELSE QuizState
    IN  IF autoRead THEN AutoReadEffect(voiced) ELSE voiced

\* the passive effects of the last QuizModal render; onSubmit is
\* handleQuizSubmit, which without taskData runs to its end at once and with
\* taskData is suspended at its service call
QuizEffects ==
    /\ QuizMounted
    /\ quizEffect \/ autoRead
    /\ \E st \in {DueEffects} :
           /\ submitCalls + st.submits <= MaxSubmits
           /\ submitCalls' = submitCalls + st.submits
           /\ SpeakTimes(st.speaks)
           /\ IF st.submits > 0 /\ ~taskData
              THEN /\ messages' = Append(messages, SystemMessage)
                   /\ showQuiz' = FALSE
                   /\ quizQuestions' = 0
                   /\ loading' = FALSE
                   /\ UNCHANGED submitsPending
                   /\ UnmountQuiz
              ELSE /\ loading' = (loading \/ st.submits > 0)
                   /\ submitsPending' = submitsPending + st.submits
                   /\ answers' = st.answers
                   /\ currentQuestion' = st.currentQuestion
                   /\ voiceFeedback' = st.voiceFeedback
                   /\ hasSpokenRef' = st.hasSpokenRef
                   /\ quizEffect' = \/ st.setAnswers
                                    \/ st.currentQuestion # currentQuestion
                                    \/ st.voiceFeedback # voiceFeedback
                                    \/ loading' # loading
                                    \/ isSpeaking' # isSpeaking
                   /\ autoRead' = (st.currentQuestion # currentQuestion)
                   /\ UNCHANGED <<messages, showQuiz, quizQuestions>>
    /\ commandHandled' = (commandHandled \/ (quizEffect /\ quizVoiceInput # NoVoiceInput
                                                /\ quizVoiceInput.isFinal))
    /\ UNCHANGED <<taskData, interimTranscript, sessionId, sessionIdRef, quizTimers,
                   responseToSpeak, quizVoiceInput, onTranscriptRef, req, nReq, send, nLines,
                   spokenReplies>>
    /\ UNCHANGED <<voiceEnabled, isEnabledRef, isUnmountedRef, isListening, error,
                   recognitionRef, nRec, pendingInit, resumeTimers, nResults,
                   lastCall, heard>>

\* ChatInterface renders again for a reason of its own (the student types in
\* the message box), and the QuizModal with it
QuizRerender ==
    /\ QuizMounted
    /\ ~quizEffect
    /\ quizEffect' = TRUE
    /\ UNCHANGED <<taskData, submitsPending, answers, currentQuestion, voiceFeedback,
                   hasSpokenRef, autoRead, submitCalls, commandHandled>>
    /\ UNCHANGED <<messages, loading, interimTranscript, sessionId, sessionIdRef,
                   showQuiz, quizQuestions, quizTimers, responseToSpeak, quizVoiceInput,
                   onTranscriptRef, req, nReq, send, nLines, spokenReplies>>
    /\ UNCHANGED hookVars

\* the service call of a suspended handleQuizSubmit resolves: feedback
\* message, the quiz closes, finally
SubmitResolved ==
    /\ submitsPending > 0
    /\ submitsPending' = submitsPending - 1
    /\ messages' = Append(messages, SystemMessage)
    /\ showQuiz' = FALSE
    /\ quizQuestions' = 0
    /\ loading' = FALSE
    /\ UnmountQuiz
    /\ UNCHANGED <<taskData, submitCalls, commandHandled>>
    /\ UNCHANGED <<interimTranscript, sessionId, sessionIdRef, quizTimers,
                   responseToSpeak, quizVoiceInput, onTranscriptRef, req, nReq, send, nLines,
                   spokenReplies>>
    /\ UNCHANGED hookVars

\* the service call rejects: the catch block (an alert), finally
SubmitRejected ==
    /\ submitsPending > 0
    /\ submitsPending' = submitsPending - 1
    /\ loading' = FALSE
    /\ quizEffect' = (quizEffect \/ (loading /\ QuizMounted))
    /\ UNCHANGED <<taskData, answers, currentQuestion, voiceFeedback, hasSpokenRef,
                   autoRead, submitCalls, commandHandled>>
    /\ UNCHANGED <<messages, interimTranscript, sessionId, sessionIdRef, showQuiz,
                   quizQuestions, quizTimers, responseToSpeak, quizVoiceInput,
                   onTranscriptRef, req, nReq, send, nLines, spokenReplies>>
    /\ UNCHANGED hookVars

-----------------------------------------------------------------------------
(* The hook under every interleaving of its callers and of the browser's events *)

Init == HookInit /\ ChatInit

Next ==
    \/ ClickEnable
    \/ ClickDisable
    \/ PermissionGranted
    \/ PermissionDenied
    \/ \E r \in RecIds : RecOnStart(r)
    \/ \E r \in RecIds : \E fin \in FinalFragments \cup {<<>>} :
          \E interim \in InterimFragments \cup {<<>>} : RecOnResult(r, fin, interim)
    \/ \E r \in RecIds : SilenceElapsed(r)
    \/ \E r \in RecIds : RecOnEndAborted(r)
    \/ \E r \in RecIds : RecOnEndUnexpected(r)
    \/ \E r \in RecIds : RecOnErrorNotAllowed(r)
    \/ \E r \in RecIds : RecOnEndRefused(r)
    \/ Speak
    \/ SpeechEnds
    \/ SpeechFails
    \/ CancelledSpeechError
    \/ CancelledSpeechEnd
    \/ ResumeTimerFires
    \/ Unmount

Spec == Init /\ [][Next]_vars

-----------------------------------------------------------------------------
(* The segmenter of one recognition object: the hook once the feature is    *)
(* on and the first session is listening (the state ClickEnable,            *)
(* PermissionGranted and RecOnStart lead to), under the events of that      *)
(* session, of playback and of the stop button                              *)

SegmenterInit ==
    /\ voiceEnabled = TRUE
    /\ isEnabledRef = TRUE
    /\ isUnmountedRef = FALSE
    /\ isListening = TRUE
    /\ isSpeaking = FALSE
    /\ isSpeakingRef = FALSE
    /\ error = "null"
    /\ recognitionRef = 1
    /\ rec = [r \in RecIds |->
                IF r = 1 THEN [st |-> "listening", timers |-> 0, buf |-> <<>>]
                ELSE NoRec]
    /\ nRec = 1
    /\ pendingInit = 0
    /\ speaking = FALSE
    /\ cancelled = 0
    /\ awaitingEnd = 0
    /\ resumeTimers = 0
    /\ nResults = 0
    /\ lastCall = NoCall
    /\ heard = [r \in RecIds |-> <<>>]
    /\ ChatInit

SegmenterNext ==
    \/ ClickDisable
    \/ \E r \in RecIds : RecOnStart(r)
    \/ \E r \in RecIds : \E fin \in FinalFragments \cup {<<>>} :
          \E interim \in InterimFragments \cup {<<>>} : RecOnResult(r, fin, interim)
    \/ \E r \in RecIds : SilenceElapsed(r)
    \/ \E r \in RecIds : RecOnEndAborted(r)
    \/ \E r \in RecIds : RecOnEndUnexpected(r)
    \/ Speak
    \/ SpeechEnds
    \/ SpeechFails
    \/ CancelledSpeechError
    \/ CancelledSpeechEnd
    \/ ResumeTimerFires

SpecSegmenter == SegmenterInit /\ [][SegmenterNext]_vars

-----------------------------------------------------------------------------
(* The voice handler of ChatInterface while the feature is on: the hook     *)
(* delivers transcripts, the server streams its replies, the speech trigger *)
(* calls speak() and the hook takes its turns. The bodies are made of      *)
(* response events and quiz triggers.                                       *)

ListeningInit ==
    /\ voiceEnabled = TRUE
    /\ isEnabledRef = TRUE
    /\ isUnmountedRef = FALSE
    /\ isListening = TRUE
    /\ isSpeaking = FALSE
    /\ isSpeakingRef = FALSE
    /\ error = "null"
    /\ recognitionRef = 1
    /\ rec = [r \in RecIds |->
                IF r = 1 THEN [st |-> "listening", timers |-> 0, buf |-> <<>>]
                ELSE NoRec]
    /\ nRec = 1
    /\ pendingInit = 0
    /\ speaking = FALSE
    /\ cancelled = 0
    /\ awaitingEnd = 0
    /\ resumeTimers = 0
    /\ nResults = 0
    /\ lastCall = NoCall
    /\ heard = [r \in RecIds |-> <<>>]

ChatNext ==
    \/ \E t \in Transcripts : VoiceFinal(t)
    \/ \E t \in Transcripts : VoiceInterim(t)
    \/ \E q \in ReqIds : FetchOk(q)
    \/ \E q \in ReqIds : \E chunk \in Chunks(ResponseLines \cup QuizLines) :
          ReadChunk(q, chunk)
    \/ \E q \in ReqIds : ReadDone(q)
    \/ \E q \in ReqIds : RequestFails(q)
    \/ QuizTimerFires
    \/ FlushEffects
    \/ SpeechEnds
    \/ SpeechFails
    \/ CancelledSpeechError
    \/ CancelledSpeechEnd
    \/ ResumeTimerFires
    \/ \E r \in RecIds : RecOnStart(r)
    \/ \E r \in RecIds : RecOnEndAborted(r)

VoiceChatInit == ListeningInit /\ ChatInit

SpecChat == VoiceChatInit /\ [][ChatNext]_vars

-----------------------------------------------------------------------------
(* The session id under voice requests that may overlap: the bodies are     *)
(* made of session_info events                                              *)

SessionNext ==
    \/ \E t \in Transcripts : VoiceFinal(t)
    \/ \E q \in ReqIds : FetchOk(q)
    \/ \E q \in ReqIds : \E chunk \in Chunks(SessionLines) : ReadChunk(q, chunk)
    \/ \E q \in ReqIds : ReadDone(q)
    \/ FlushEffects

SpecSession == VoiceChatInit /\ [][SessionNext]_vars

-----------------------------------------------------------------------------
(* The open quiz under voice input: the state after a voice request whose   *)
(* stream carried a quiz trigger (VoiceFinal, FetchOk, ReadChunk, ReadDone,  *)
(* QuizTimerFires, FlushEffects) and while the quiz stays open               *)

\* the chat with the quiz just mounted
QuizOpen ==
    /\ messages = <<UserMessage(<<"t">>)>>
    /\ loading = FALSE
    /\ interimTranscript = NullText
    /\ sessionId = 0
    /\ sessionIdRef = 0
    /\ showQuiz = TRUE
    /\ quizQuestions = 1
    /\ quizTimers = <<>>
    /\ responseToSpeak = NullText
    /\ quizVoiceInput = NoVoiceInput
    /\ onTranscriptRef = TRUE
    /\ req = [q \in ReqIds |->
                IF q = 1 THEN [pc |-> "done", sid |-> 0, replies |-> <<>>, pat |-> 0]
                ELSE NoReq]
    /\ nReq = 1
    /\ send = NoSend
    /\ nLines = 1
    /\ spokenReplies = 0
    /\ submitsPending = 0
    /\ answers = [i \in 1..Len(QuizQuestion(1)) |-> Blank]
    /\ currentQuestion = 0
    /\ voiceFeedback = NoFeedback
    /\ hasSpokenRef = FALSE
    /\ quizEffect = TRUE
    /\ autoRead = TRUE
    /\ submitCalls = 0
    /\ commandHandled = FALSE

\* the student finishes a phrase while the quiz is open
SpokenToQuiz(t) == QuizMounted /\ VoiceFinal(t)

\* a quiz of the chat
QuizOpenInit == ListeningInit /\ QuizOpen /\ taskData = FALSE

QuizNext ==
    \/ \E t \in QuizTranscripts : SpokenToQuiz(t)
    \/ QuizEffects
    \/ QuizRerender
    \/ SpeechEnds
    \/ SpeechFails
    \/ CancelledSpeechError
    \/ CancelledSpeechEnd
    \/ ResumeTimerFires
    \/ \E r \in RecIds : RecOnStart(r)
    \/ \E r \in RecIds : RecOnEndAborted(r)

SpecQuiz == QuizOpenInit /\ [][QuizNext]_vars

\* the same quiz when the student names two options in one utterance
TieTranscripts == {SayParisOrLondon, SayParis, SayNext}

TieNext ==
    \/ \E t \in TieTranscripts : SpokenToQuiz(t)
    \/ QuizEffects
    \/ QuizRerender
    \/ SpeechEnds
    \/ SpeechFails
    \/ CancelledSpeechError
    \/ CancelledSpeechEnd
    \/ ResumeTimerFires
    \/ \E r \in RecIds : RecOnStart(r)
    \/ \E r \in RecIds : RecOnEndAborted(r)

SpecTie == QuizOpenInit /\ [][TieNext]_vars

-----------------------------------------------------------------------------
(* The quiz of an assignment (taskData) until it is submitted: the student  *)
(* answers and says submit, the service call resolves or rejects            *)

TaskQuizInit == ListeningInit /\ QuizOpen /\ taskData = TRUE

SubmitNext ==
    \/ \E t \in SubmitTranscripts : SpokenToQuiz(t)
    \/ QuizEffects
    \/ QuizRerender
    \/ SubmitResolved
    \/ SubmitRejected
    \/ FlushEffects
    \/ SpeechEnds
    \/ SpeechFails
    \/ CancelledSpeechError
    \/ CancelledSpeechEnd
    \/ ResumeTimerFires
    \/ \E r \in RecIds : RecOnStart(r)
    \/ \E r \in RecIds : RecOnEndAborted(r)

SpecSubmit == TaskQuizInit /\ [][SubmitNext]_vars

\* what the student types into the textarea of a short-answer question
TypedAnswers == {<<" ">>}

\* the textarea's onChange: handleAnswerChange(currentQuestion, value); the
\* new answers render the QuizModal again
TypeAnswer(value) ==
    /\ QuizMounted
    /\ QuizQuestion(quizQuestions)[currentQuestion + 1].type = "short_answer"
    /\ answers' = handleAnswerChange(QuizState, currentQuestion, value).answers
    /\ quizEffect' = TRUE
    /\ UNCHANGED <<taskData, submitsPending, currentQuestion, voiceFeedback,
                   hasSpokenRef, autoRead, submitCalls, commandHandled>>
    /\ UNCHANGED <<messages, loading, interimTranscript, sessionId, sessionIdRef,
                   showQuiz, quizQuestions, quizTimers, responseToSpeak, quizVoiceInput,
                   onTranscriptRef, req, nReq, send, nLines, spokenReplies>>
    /\ UNCHANGED hookVars

\* the quiz of an assignment answered by voice and by keyboard
FormNext ==
    \/ \E t \in SubmitTranscripts : SpokenToQuiz(t)
    \/ \E value \in TypedAnswers : TypeAnswer(value)
    \/ QuizEffects
    \/ QuizRerender
    \/ SubmitResolved
    \/ SubmitRejected
    \/ FlushEffects
    \/ SpeechEnds
    \/ SpeechFails
    \/ CancelledSpeechError
    \/ CancelledSpeechEnd
    \/ ResumeTimerFires
    \/ \E r \in RecIds : RecOnStart(r)
    \/ \E r \in RecIds : RecOnEndAborted(r)

SpecForm == TaskQuizInit /\ [][FormNext]_vars

-----------------------------------------------------------------------------
(* The read loop of one voice request: the state after the student's first *)
(* utterance was submitted and its fetch resolved (VoiceFinal, FetchOk),    *)
(* under every body the server can stream                                   *)

StreamInit ==
    /\ ListeningInit
    /\ QuizInit
    /\ messages = <<UserMessage(<<"t">>)>>
    /\ loading = TRUE
    /\ interimTranscript = NullText
    /\ sessionId = 0
    /\ sessionIdRef = 0
    /\ showQuiz = FALSE
    /\ quizQuestions = 0
    /\ quizTimers = <<>>
    /\ responseToSpeak = NullText
    /\ quizVoiceInput = NoVoiceInput
    /\ onTranscriptRef = FALSE
    /\ req = [q \in ReqIds |->
                IF q = 1 THEN [pc |-> "read", sid |-> 0, replies |-> <<>>, pat |-> 0]
                ELSE NoReq]
    /\ nReq = 1
    /\ send = NoSend
    /\ nLines = 0
    /\ spokenReplies = 0

StreamNext ==
    \/ \E q \in ReqIds : \E chunk \in Chunks(StreamLines) : ReadChunk(q, chunk)
    \/ \E q \in ReqIds : ReadDone(q)
    \/ \E q \in ReqIds : RequestFails(q)
    \/ QuizTimerFires
    \/ FlushEffects
    \/ SpeechEnds
    \/ SpeechFails
    \/ CancelledSpeechError
    \/ CancelledSpeechEnd
    \/ ResumeTimerFires
    \/ \E r \in RecIds : RecOnStart(r)
    \/ \E r \in RecIds : RecOnEndAborted(r)

SpecStream == StreamInit /\ [][StreamNext]_vars

\* the same read loop when the transport may also end a read inside a line
CutChunks(lines) == {<<>>} \cup {<<l>> : l \in lines}

SplitNext ==
    \/ \E q \in ReqIds : \E chunk \in Chunks(StreamLines) : ReadChunk(q, chunk)
    \/ \E q \in ReqIds : \E chunk \in CutChunks(StreamLines) : \E line \in StreamLines \ {MalformedLine} :
           ReadChunkCut(q, chunk, line)
    \/ \E q \in ReqIds : \E chunk \in CutChunks(StreamLines) : \E line \in StreamLines \ {MalformedLine} :
           ReadChunkRest(q, line, chunk)
    \/ \E q \in ReqIds : ReadDone(q)
    \/ \E q \in ReqIds : RequestFails(q)
    \/ QuizTimerFires
    \/ FlushEffects
    \/ SpeechEnds
    \/ SpeechFails
    \/ CancelledSpeechError
    \/ CancelledSpeechEnd
    \/ ResumeTimerFires
    \/ \E r \in RecIds : RecOnStart(r)
    \/ \E r \in RecIds : RecOnEndAborted(r)

SpecSplit == StreamInit /\ [][SplitNext]_vars

-----------------------------------------------------------------------------
(* handleSendMessage: the typed message and its retries *)

\* typed messages over a run
MaxTyped == 2

maxRetries == 3

\* what the student types into the message box
InputMessages == {<<"h", "i">>, <<" ", "o", "k">>, <<" ">>}

\* what chatService.sendMessage resolves with
SendResponses == [session_id : {0, 1}, ai_response : ReplyTexts]

TypedMessage(t) == [role |-> "user", content |-> t, isVoice |-> FALSE]
TypedReply(c) == [role |-> "assistant", content |-> c, isVoice |-> FALSE]
\* the notice of the catch block, numbered with the attempt
RetryNotice(n) == [role |-> "system", content |-> <<"retry", n>>, isVoice |-> FALSE,
                   isRetrying |-> TRUE]
SendFailureMessage == [role |-> "assistant", content |-> <<"trouble">>, isVoice |-> FALSE]

\* msg.isRetrying, undefined on the other messages
IsRetrying(msg) == "isRetrying" \in DOMAIN msg /\ msg.isRetrying

\* a handler that leaves the notices in the list
KeepRetrying(msgs) == msgs

\* prev.filter(msg => !msg.isRetrying)
RemoveRetrying(msgs) == SelectSeq(msgs, LAMBDA msg : ~IsRetrying(msg))

\* the form is submitted: the guard, the user message, and the first pass of
\* the loop up to the service call
HandleSendMessage(inputMessage) ==
    /\ send.pc = "idle"
    /\ send.sent < MaxTyped
    /\ Trim(inputMessage) # <<>>
    /\ ~loading
    /\ loading' = TRUE
    /\ messages' = Append(messages, TypedMessage(Trim(inputMessage)))
    /\ send' = [pc |-> "call", userMessage |-> Trim(inputMessage), retryCount |-> 0,
                success |-> FALSE, sid |-> sessionId, calls |-> 1,
                before |-> messages, sent |-> send.sent + 1]
    /\ UNCHANGED <<interimTranscript, sessionId, sessionIdRef, showQuiz, quizQuestions,
                   quizTimers, responseToSpeak, quizVoiceInput, onTranscriptRef, req,
                   nReq, nLines, spokenReplies>>
    /\ QuizRenders(TRUE)
    /\ UNCHANGED hookVars

\* the service call resolves: session id, reply, success; the loop ends and
\* loading is cleared (taskData is not set and no test was generated)
SendResolved(response) ==
    /\ send.pc = "call"
    /\ ~taskData
    /\ sessionId' = IF send.sid = 0 /\ response.session_id # 0
                    THEN response.session_id
                    ELSE sessionId
    /\ messages' = Append(messages, TypedReply(response.ai_response))
    /\ loading' = FALSE
    /\ send' = [send EXCEPT !.pc = "idle", !.success = TRUE]
    /\ UNCHANGED <<interimTranscript, sessionIdRef, showQuiz, quizQuestions,
                   quizTimers, responseToSpeak, quizVoiceInput, onTranscriptRef, req,
                   nReq, nLines, spokenReplies>>
    /\ QuizRenders(TRUE)
    /\ UNCHANGED hookVars

\* the service call rejects: the catch block. Below maxRetries the notice is
\* shown and the backoff timer awaited; at maxRetries the failure message is
\* appended, the loop ends and loading is cleared
SendRejected ==
    /\ send.pc = "call"
    /\ LET retryCount == send.retryCount + 1
       IN  IF retryCount < maxRetries
           THEN /\ messages' = Append(messages, RetryNotice(retryCount))
                /\ send' = [send EXCEPT !.pc = "backoff", !.retryCount = retryCount]
                /\ UNCHANGED loading
           ELSE /\ messages' = Append(messages, SendFailureMessage)
                /\ send' = [send EXCEPT !.pc = "idle", !.retryCount = retryCount]
                /\ loading' = FALSE
    /\ UNCHANGED <<interimTranscript, sessionId, sessionIdRef, showQuiz, quizQuestions,
                   quizTimers, responseToSpeak, quizVoiceInput, onTranscriptRef, req,
                   nReq, nLines, spokenReplies>>
    /\ QuizRenders(TRUE)
    /\ UNCHANGED hookVars

\* the backoff timer resolves: the notices are removed and the next pass of
\* the loop calls the service again
BackoffElapsed ==
    /\ send.pc = "backoff"
    /\ messages' = RemoveRetrying(messages)
    /\ send' = [send EXCEPT !.pc = "call", !.calls = @ + 1]
    /\ UNCHANGED <<loading, interimTranscript, sessionId, sessionIdRef, showQuiz,
                   quizQuestions, quizTimers, responseToSpeak, quizVoiceInput,
                   onTranscriptRef, req, nReq, nLines, spokenReplies>>
    /\ QuizRenders(messages' # messages)
    /\ UNCHANGED hookVars

SendNext ==
    \/ \E inputMessage \in InputMessages : HandleSendMessage(inputMessage)
    \/ \E response \in SendResponses : SendResolved(response)
    \/ SendRejected
    \/ BackoffElapsed

SpecSend == Init /\ [][SendNext]_vars

\* the same read loop when the server sends quizzes of different lengths
TriggerQuizIds == {1, 2, 3}
TriggerLines ==
    ResponseLines \cup {[type |-> "control", content |-> NullText, session_id |-> 0,
                         quiz |-> k, schedule |-> FALSE] : k \in TriggerQuizIds}

TriggerNext ==
    \/ \E q \in ReqIds : \E chunk \in Chunks(TriggerLines) : ReadChunk(q, chunk)
    \/ \E q \in ReqIds : ReadDone(q)
    \/ \E q \in ReqIds : RequestFails(q)
    \/ QuizTimerFires
    \/ FlushEffects
    \/ SpeechEnds
    \/ SpeechFails
    \/ CancelledSpeechError
    \/ CancelledSpeechEnd
    \/ ResumeTimerFires
    \/ \E r \in RecIds : RecOnStart(r)
    \/ \E r \in RecIds : RecOnEndAborted(r)

SpecTrigger == StreamInit /\ [][TriggerNext]_vars

-----------------------------------------------------------------------------
(* Turn taking *)

\* some recognition session captures audio
Capturing == \E r \in RecIds : RecActive(r)

\* a terminal callback of an utterance, or the timer it set, runs
UtteranceCallbackStep ==
    SpeechEnds \/ SpeechFails \/ CancelledSpeechError \/ CancelledSpeechEnd
        \/ ResumeTimerFires

\* C1: a recognition session and a synthesis utterance are never active at
\* the same time, whatever the order of enable, disable, speak() calls and
\* recognition and synthesis events.
C1_MutualExclusion == ~(Capturing /\ speaking)

\* C2: once the feature is disabled nothing is active until it is enabled
\* again: in every state in which the feature is off no recognition session
\* captures audio, and playback is on only if it already was or a speak()
\* call of this very step started it (the disabling step itself leaves
\* neither).
C2_DisabledStaysIdle ==
    [][~voiceEnabled' =>
          /\ ~Capturing'
          /\ speaking' => ((~voiceEnabled /\ speaking) \/ Speak)]_vars

\* C3: while the feature stays enabled, the terminal callback of an
\* utterance (or the resume timer it set) restarts capture only after
\* playback has ended: when speak() was called again before the callback
\* of a cancelled utterance ran, that callback does not restart capture
\* under the utterance which is being spoken.
C3_ResumeAfterPlaybackEnded ==
    [][(voiceEnabled /\ voiceEnabled' /\ UtteranceCallbackStep) =>
          \A r \in RecIds : (~RecActive(r) /\ RecActive(r)') => ~speaking']_vars

\* C4: when a session ends, it is started again if the feature is enabled,
\* nothing is being spoken and the hook is mounted; otherwise it stays
\* stopped and isListening becomes false.
C4_EndRestartsOnlyWhenFree ==
    [][\A r \in RecIds :
          (rec[r].st \in {"aborted", "listening"} /\ OnEndHandler(r)) =>
              IF voiceEnabled /\ ~speaking /\ ~isUnmountedRef
              THEN rec'[r].st = "starting"
              ELSE rec'[r].st = "idle" /\ ~isListening']_vars

-----------------------------------------------------------------------------
(* Silence segmentation *)

\* the fragments, each followed by the space onresult appends
RECURSIVE JoinFragments(_)
JoinFragments(fs) ==
    IF fs = <<>> THEN <<>> ELSE Head(fs) \o <<Space>> \o JoinFragments(Tail(fs))

C6_NoTranscriptAfterAbort ==
    [][\A r \in RecIds : rec[r].st = "aborted" => ~SilenceElapsed(r)]_vars

\* the user messages of the list
UserMessages(msgs) == SelectSeq(msgs, LAMBDA m : m.role = "user")

\* C7: while a quiz is open, no step sends a transcript to the chat endpoint
\* or appends a user message, and a final transcript goes to the quiz voice
\* input
C7_QuizTakesFinalTranscripts ==
    [][showQuiz =>
          /\ nReq' = nReq
          /\ UserMessages(messages') = UserMessages(messages)
          /\ \A t \in Transcripts :
                VoiceFinal(t) => quizVoiceInput' = [text |-> t, isFinal |-> TRUE]]_vars

\* what the response events in the list started as: an appended schedule
\* note extends the content of a reply, its first word is the event's content
ReplyHeads(msgs) ==
    LET voice == SelectSeq(msgs, LAMBDA m : m.isVoice)
    IN  [i \in 1..Len(voice) |-> <<Head(voice[i].content)>>]

RECURSIVE IsSubSeq(_, _)
IsSubSeq(a, b) ==
    IF a = <<>> THEN TRUE
    ELSE IF b = <<>> THEN FALSE
    ELSE IF Head(a) = Head(b) THEN IsSubSeq(Tail(a), Tail(b))
    ELSE IsSubSeq(a, Tail(b))

\* the response events the readers of requests 1..n returned
RECURSIVE RepliesReceived(_)
RepliesReceived(n) ==
    IF n = 0 THEN 0 ELSE Len(req[n].replies) + RepliesReceived(n - 1)

C9_FallbackPerRequest ==
    [][\A q \in ReqIds :
          RequestFails(q) =>
              IF req[q].replies = <<>>
              THEN /\ messages' = Append(messages, ErrorMessage)
                   /\ responseToSpeak' = ErrorText
              ELSE /\ messages' = messages
                   /\ responseToSpeak' = responseToSpeak]_vars

\* C10: every response event in the message list was passed to speak() or
\* is the one the speech trigger will pass next
C10_EveryReplySpoken ==
    Len(ReplyHeads(messages)) <=
        spokenReplies + (IF responseToSpeak \in ReplyTexts THEN 1 ELSE 0)

\* C11: once a session id is known, no step changes it: a session_info
\* event sets the session id only while none is known
C11_SessionIdAdoptedOnce ==
    [][sessionId # 0 => sessionId' = sessionId]_vars


-----------------------------------------------------------------------------
(* The quiz by voice *)

\* the quiz holds the finalized transcript t as its voice input
Holds(t) == QuizMounted /\ quizVoiceInput = [text |-> t, isFinal |-> TRUE]

\* a step in which processVoiceCommand runs on a voice input for the first time
FirstRun == QuizMounted /\ ~commandHandled /\ commandHandled'

\* the last question index of the mounted quiz
LastQuestion == Len(QuizQuestion(quizQuestions)) - 1

\* C12: a finalized "next" moves the active question on by exactly one below
\* the last question and not at all on the last one: the step that first
\* handles it does so, and while the quiz holds this command no other step
\* moves the index; the index stays within 0..n-1
C12_NextAdvancesByOne ==
    [][(Holds(SayNext) /\ QuizMounted')
        => /\ currentQuestion' \in 0..LastQuestion
           /\ currentQuestion' = IF FirstRun /\ currentQuestion < LastQuestion
                                 THEN currentQuestion + 1
                                 ELSE currentQuestion]_vars

\* C13: the finalized transcript "next please" is a forward navigation on
\* every question type: the step that handles it moves the index on by one
\* below the last question and records no answer
C13_NextPleaseNavigates ==
    [][(Holds(SayNextPlease) /\ FirstRun /\ QuizMounted')
        => /\ answers' = answers
           /\ currentQuestion' = IF currentQuestion < LastQuestion
                                 THEN currentQuestion + 1
                                 ELSE currentQuestion]_vars

\* the question on screen is of this type
OnQuestion(type) ==
    QuizMounted /\ QuizQuestion(quizQuestions)[currentQuestion + 1].type = type

\* the answer a is recorded for the question on screen and nothing else changes
\* in the answers
Records(a) == answers' = [answers EXCEPT ![currentQuestion + 1] = a]

\* the options of the question on screen
OptionsOnScreen == QuizQuestion(quizQuestions)[currentQuestion + 1].options

\* C14: on a multiple-choice question with the options A) Paris, B) London,
\* C) Berlin, D) Madrid, "I think it's paris" selects A, "option b" selects B
\* and "purple monkey dishwasher" selects nothing, whatever the rest of the
\* state is
C14_MultipleChoiceByVoice ==
    [][(FirstRun /\ QuizMounted' /\ OnQuestion("multiple_choice")
          /\ OptionsOnScreen = <<OptionParis, OptionLondon, OptionBerlin, OptionMadrid>>)
        => /\ Holds(SayParis) =>
                 Records(<<"A">>) /\ voiceFeedback' = [kind |-> "selected", arg |-> <<"A">>]
           /\ Holds(SayOptionB) =>
                 Records(<<"B">>) /\ voiceFeedback' = [kind |-> "selected", arg |-> <<"B">>]
           /\ Holds(SayNonsense) =>
                 answers' = answers /\ voiceFeedback'.kind = "hint"]_vars

\* the quiz has handled "I think it's paris" on the first question
C14_Witness ==
    /\ Holds(SayParis)
    /\ commandHandled
    /\ currentQuestion = 0
    /\ answers[1] = <<"A">>
    /\ voiceFeedback = [kind |-> "selected", arg |-> <<"A">>]

\* the transcripts of the model that are navigation or control commands
SpokenCommands == {SayNext, SayPrevious, SaySubmit, SayRepeat}

\* the voice input held, in lower case
HeardLower == ToLowerCase(quizVoiceInput.text)

\* C15: on a true/false question a finalized transcript that is not a command
\* selects True when it contains "true" or "yes", and otherwise False when it
\* contains "false" or "no"; "no I don't think so" selects False
C15_TrueFalseByVoice ==
    [][(FirstRun /\ QuizMounted' /\ OnQuestion("true_false")
          /\ quizVoiceInput.text \notin SpokenCommands)
        => /\ (Includes(HeardLower, WordTrue) \/ Includes(HeardLower, WordYes))
                 => Records(AnswerTrue)
           /\ (/\ ~(Includes(HeardLower, WordTrue) \/ Includes(HeardLower, WordYes))
               /\ (Includes(HeardLower, WordFalse) \/ Includes(HeardLower, WordNo)))
                 => Records(AnswerFalse)
           /\ Holds(SayNo) => Records(AnswerFalse)]_vars

\* the quiz has handled "no I don't think so" on the true/false question
C15_Witness ==
    /\ Holds(SayNo)
    /\ commandHandled
    /\ OnQuestion("true_false")
    /\ answers[currentQuestion + 1] = AnswerFalse

\* C16: on a short-answer question a finalized transcript that is no command
\* is stored as it was spoken, case and punctuation included, as the answer
\* of the question on screen; the other answers and the index stay
C16_ShortAnswerVerbatim ==
    [][(FirstRun /\ QuizMounted' /\ OnQuestion("short_answer")
          /\ quizVoiceInput.isFinal /\ quizVoiceInput.text \notin SpokenCommands)
        => /\ Records(quizVoiceInput.text)
           /\ currentQuestion' = currentQuestion]_vars

\* "Yes." is the answer of the short-answer question, with its capital and
\* its full stop, and the other two answers are still blank
C16_Witness ==
    /\ Holds(SayYes)
    /\ commandHandled
    /\ OnQuestion("short_answer")
    /\ answers[currentQuestion + 1] = <<"Y", "e", "s", ".">>
    /\ \A i \in DOMAIN answers : i # currentQuestion + 1 => answers[i] = Blank

\* the voice input held names no command and no answer of the question on
\* screen: on the multiple-choice question no letter and no city, on the
\* true/false question none of true, yes, false, no
Unrecognized ==
    \/ OnQuestion("multiple_choice") /\ (Holds(SayNonsense) \/ Holds(SayNo) \/ Holds(SayYes))
    \/ OnQuestion("true_false") /\ (Holds(SayNonsense) \/ Holds(SayParis) \/ Holds(SayOptionB))

\* C17: on a multiple-choice or true/false question a finalized transcript
\* that matches no command and no answer changes neither the answers nor the
\* index; it only sets the hint that names the valid inputs
C17_UnrecognizedOnlyHints ==
    [][(FirstRun /\ QuizMounted' /\ Unrecognized)
        => /\ answers' = answers
           /\ currentQuestion' = currentQuestion
           /\ voiceFeedback' = [kind |-> "hint", arg |-> Blank]
           /\ submitCalls' = submitCalls]_vars

\* "purple monkey dishwasher" on the true/false question, after the first
\* question was answered: the answer is kept and the hint is shown
C17_Witness ==
    /\ Holds(SayNonsense)
    /\ commandHandled
    /\ OnQuestion("true_false")
    /\ voiceFeedback = [kind |-> "hint", arg |-> Blank]
    /\ answers[1] # Blank
    /\ answers[2] = Blank

\* C18: onSubmit is invoked at most once for a quiz that was opened, however
\* often submit is said and however often the quiz renders again
C18_SubmitOnce == submitCalls <= 1

-----------------------------------------------------------------------------
(* Recognition errors *)

\* C19: after a not-allowed error capture stays stopped: no step taken while
\* the refused session waits for its end event, and not the end event itself,
\* starts that recognizer again, unless the user toggles the feature
C19_NotAllowedStopsCapture ==
    [][\A r \in RecIds :
          (rec[r].st = "refused" /\ voiceEnabled' = voiceEnabled) => ~RecActive(r)']_vars

-----------------------------------------------------------------------------
(* The signals of speak() *)

\* utterances handed to synthesis whose terminal event is still to come
Outstanding == (IF speaking THEN 1 ELSE 0) + cancelled

\* C20: a speak() call signals speaking started in the step that hands its
\* utterance over, and speaking ended is signalled once for each utterance, by
\* its terminal event and by nothing else, whether it ended, failed or was
\* cancelled by a later speak() or by the stop button: the calls still
\* awaiting their end signal are exactly the utterances still outstanding
C20_SpeakingSignals ==
    [][/\ awaitingEnd' = Outstanding'
       /\ awaitingEnd' > awaitingEnd =>
             awaitingEnd' = awaitingEnd + 1 /\ isSpeaking' /\ isSpeakingRef' /\ speaking'
       /\ awaitingEnd' < awaitingEnd =>
             awaitingEnd' = awaitingEnd - 1 /\ ~isSpeaking' /\ ~isSpeakingRef']_vars

\* a second speak() cancelled the first utterance, whose terminal event has
\* signalled its end while the second utterance is being spoken
C20_Witness ==
    /\ speaking
    /\ cancelled = 0
    /\ ~isSpeaking
    /\ awaitingEnd = 1

-----------------------------------------------------------------------------
(* The body in read chunks *)

\* C21: every well-formed response line the server streamed, whole or cut
\* in two by the reads, is in the message list once and in the order sent,
\* as soon as the read that brought its end was handled
C21_EveryLineHandledOnce ==
    \A q \in ReqIds :
        req[q].pc \in {"read", "done"} /\ nReq = 1
            => ReplyHeads(messages) = req[q].replies

\* the voice input effect runs on a finalized transcript: processVoiceCommand
\* is called with it
ProcessesVoiceInput ==
    /\ QuizEffects
    /\ quizEffect
    /\ quizVoiceInput # NoVoiceInput
    /\ quizVoiceInput.isFinal

\* C22: a finalized transcript routed to the quiz is processed once: no step
\* calls processVoiceCommand with a transcript that was processed before
C22_ProcessedOnce ==
    [][ProcessesVoiceInput => ~commandHandled]_vars

\* C23: when the transcript contains the texts of two options, the content
\* matching selects the one that comes first in the options: on A) Paris,
\* B) London, C) Berlin, D) Madrid, "paris or london" selects A
C23_EarliestOptionWins ==
    [][(FirstRun /\ QuizMounted' /\ OnQuestion("multiple_choice")
          /\ OptionsOnScreen = <<OptionParis, OptionLondon, OptionBerlin, OptionMadrid>>
          /\ Holds(SayParisOrLondon))
        => Records(<<"A">>)]_vars

-----------------------------------------------------------------------------
(* Listening turns *)

\* C24: the utterance buffer is empty when a listening turn starts: a
\* session that starts to capture, for the first time or again after it was
\* torn down, holds no finalized fragment of an earlier turn
C24_BufferEmptyAtTurnStart ==
    [][\A r \in RecIds : RecOnStart(r) => rec[r].buf = <<>>]_vars

-----------------------------------------------------------------------------
(* Quiz triggers *)

\* C25: the questions of an open quiz do not change, and the answers array
\* of an open quiz has one entry per question
C25_OpenQuizKeepsQuestions ==
    [][/\ QuizMounted /\ QuizMounted' => quizQuestions' = quizQuestions
       /\ QuizMounted' => Len(answers') = Len(QuizQuestion(quizQuestions'))]_vars

\* C26: the quiz is never open with zero questions: whenever showQuiz is
\* true a QuizModal is mounted to consume the transcripts that are diverted
\* from the chat
C26_OpenQuizIsMounted == showQuiz => QuizMounted

-----------------------------------------------------------------------------
(* The typed message *)

\* handleSendMessage has returned from a typed message
SendReturned == send.pc = "idle" /\ send.sent > 0

\* C27: for one typed message the chat endpoint is called at most three
\* times and never again after a call succeeded; when handleSendMessage has
\* returned, loading is false and the message list is the list it found, the
\* user message once, and then the reply, or after three failures the one
\* failure message: no reconnecting notice is left
C27_SendMessageRetries ==
    [][/\ send'.calls <= maxRetries
       /\ send.success => send'.calls <= send.calls
       /\ SendReturned' =>
             /\ ~loading'
             /\ \A i \in 1..Len(messages') : ~IsRetrying(messages'[i])
             /\ \/ /\ send'.success
                   /\ \E c \in ReplyTexts :
                         messages' = send'.before \o <<TypedMessage(send'.userMessage),
                                                       TypedReply(c)>>
                \/ /\ ~send'.success
                   /\ send'.calls = maxRetries
                   /\ messages' = send'.before \o <<TypedMessage(send'.userMessage),
                                                    SendFailureMessage>>]_vars

\* a typed message failed twice and was answered by the third call
C27_Witness ==
    /\ SendReturned
    /\ send.success
    /\ send.calls = maxRetries
    /\ send.retryCount = 2

-----------------------------------------------------------------------------
(* Recognition sessions *)

\* C28: at most one recognition session is live: a session that captures or
\* is starting is the one recognitionRef points to
C28_OneLiveSession ==
    \A r \in RecIds : RecActive(r) => r = recognitionRef

-----------------------------------------------------------------------------
(* Voice requests in flight *)

\* the voice requests that were sent and have neither ended nor failed
InFlight == {q \in ReqIds : req[q].pc \in {"fetch", "read"}}

\* C29: at most one voice streaming request is in flight at a time
C29_OneRequestInFlight == Cardinality(InFlight) <= 1

-----------------------------------------------------------------------------
(* Submitting the quiz *)

\* the voice input effect runs on the command "submit": handleSubmit is called
SubmitRuns == QuizEffects /\ quizEffect /\ Holds(SaySubmit)

\* the answer at position i (from 1) is blank after trimming
BlankAnswer(i) == Trim(answers[i]) = Blank

\* C30: handleSubmit calls onSubmit when every answer is non-blank after
\* trimming; otherwise onSubmit is not called, the answers are unchanged and
\* the active question index moves to the first unanswered question
C30_SubmitNeedsAllAnswers ==
    [][SubmitRuns =>
          IF \A i \in 1..Len(answers) : ~BlankAnswer(i)
          THEN submitCalls' = submitCalls + 1
          ELSE /\ submitCalls' = submitCalls
               /\ answers' = answers
               /\ \E i \in 1..Len(answers) :
                     /\ BlankAnswer(i)
                     /\ \A k \in 1..(i - 1) : ~BlankAnswer(k)
                     /\ currentQuestion' = i - 1]_vars

\* "submit" was handled with the last answer made of a space only: the
\* effects of the render that followed the typing have run, the quiz is not
\* submitted and asks for question 3
C30_Witness ==
    /\ Holds(SaySubmit)
    /\ commandHandled
    /\ answers = << <<"A">>, AnswerTrue, <<" ">> >>
    /\ submitCalls = 0
    /\ currentQuestion = 2
    /\ voiceFeedback = [kind |-> "unanswered", arg |-> <<3>>]
    /\ ~quizEffect
=============================================================================
